---------------------------- MODULE Spec2Model ----------------------------
(***************************************************************************)
(* A model of fastfits: the FITS header reader, the image loader, the      *)
(* Bayer detector and the RGBA plane selection of src/src/fits.rs, and the *)
(* viewer state machine of src/src/app.rs.                                 *)
(*                                                                         *)
(* Text is modelled byte by byte: a string is a sequence of one-character  *)
(* strings, a file is a sequence of such bytes.                            *)
(***************************************************************************)
EXTENDS Integers, Sequences, FiniteSets, TLC

\* Rust's Option<T>: None is the empty sequence, Some(x) the sequence << x >>.
None == << >>
Some(x) == << x >>
IsSome(o) == o # << >>
Unwrap(o) == o[1]
\* Option::unwrap_or
UnwrapOr(o, d) == IF o = << >> THEN d ELSE o[1]

---------------------------------------------------------------------------
(* Bytes and strings (Rust str / [u8] operations used by fits.rs)          *)

\* The bytes that occur in the modelled files, in ascending byte value.
Alphabet ==
  << "NUL", " ", "'", "+", "-", ".", "/",
     "0", "1", "2", "3", "4", "5", "6", "7", "8", "9", "=",
     "A", "B", "C", "D", "E", "F", "G", "H", "I", "J", "K", "L", "M",
     "N", "O", "P", "Q", "R", "S", "T", "U", "V", "W", "X", "Y", "Z", "_",
     "a", "b", "c", "d", "e", "f", "g", "h", "i", "j", "k", "l", "m",
     "n", "o", "p", "q", "r", "s", "t", "u", "v", "w", "x", "y", "z" >>

Chars == { Alphabet[i] : i \in 1..Len(Alphabet) }

\* Byte order of a character (its rank in Alphabet).
Ord == [ c \in Chars |-> CHOOSE i \in 1..Len(Alphabet) : Alphabet[i] = c ]

Digits == << "0", "1", "2", "3", "4", "5", "6", "7", "8", "9" >>
LowerCase == << "a", "b", "c", "d", "e", "f", "g", "h", "i", "j", "k", "l", "m",
                "n", "o", "p", "q", "r", "s", "t", "u", "v", "w", "x", "y", "z" >>
UpperCase == << "A", "B", "C", "D", "E", "F", "G", "H", "I", "J", "K", "L", "M",
                "N", "O", "P", "Q", "R", "S", "T", "U", "V", "W", "X", "Y", "Z" >>

IsDigit(c) == \E i \in 1..10 : Digits[i] = c
DigitVal(c) == (CHOOSE i \in 1..10 : Digits[i] = c) - 1

\* char::to_uppercase on the ASCII letters.
UpperChar(c) ==
  IF \E i \in 1..26 : LowerCase[i] = c
    THEN UpperCase[CHOOSE i \in 1..26 : LowerCase[i] = c]
    ELSE c

\* str::to_uppercase
ToUpper(s) == [ i \in 1..Len(s) |-> UpperChar(s[i]) ]

\* The only whitespace byte of the modelled files is the space.
IsSpace(c) == c = " "

RECURSIVE TrimEnd(_)
\* str::trim_end
TrimEnd(s) ==
  IF s # << >> /\ IsSpace(s[Len(s)]) THEN TrimEnd(SubSeq(s, 1, Len(s) - 1)) ELSE s

RECURSIVE TrimStart(_)
\* str::trim_start
TrimStart(s) ==
  IF s # << >> /\ IsSpace(s[1]) THEN TrimStart(Tail(s)) ELSE s

\* str::trim
Trim(s) == TrimStart(TrimEnd(s))

\* &s[from..] with a 0-based start, as Rust slices (from <= len assumed by callers).
From(s, from) == SubSeq(s, from + 1, Len(s))

\* &s[..to] with a 0-based exclusive end.
Upto(s, to) == SubSeq(s, 1, to)

\* str::starts_with / slice::starts_with
StartsWith(s, p) == Len(s) >= Len(p) /\ SubSeq(s, 1, Len(p)) = p

\* str::ends_with
EndsWith(s, p) == Len(s) >= Len(p) /\ SubSeq(s, Len(s) - Len(p) + 1, Len(s)) = p

\* str::find: the 0-based position of the first occurrence of p, or None.
Find(s, p) ==
  LET hits == { i \in 0..(Len(s) - Len(p)) : SubSeq(s, i + 1, i + Len(p)) = p }
  IN  IF hits = {} THEN None ELSE Some(CHOOSE i \in hits : \A j \in hits : i <= j)

\* str::contains
Contains(s, p) == Find(s, p) # None

RECURSIVE ReplaceQuotes(_)
\* str::replace("''", "'"): non-overlapping matches, left to right.
ReplaceQuotes(s) ==
  IF Len(s) < 2 THEN s
  ELSE IF s[1] = "'" /\ s[2] = "'" THEN << "'" >> \o ReplaceQuotes(From(s, 2))
  ELSE << s[1] >> \o ReplaceQuotes(Tail(s))

RECURSIVE StrLess(_, _)
\* a < b for Rust Strings: lexicographic on bytes.
StrLess(a, b) ==
  IF b = << >> THEN FALSE
  ELSE IF a = << >> THEN TRUE
  ELSE IF a[1] = b[1] THEN StrLess(Tail(a), Tail(b))
  ELSE Ord[a[1]] < Ord[b[1]]

StrLeq(a, b) == a = b \/ StrLess(a, b)

RECURSIVE DigitsVal(_, _)
DigitsVal(s, acc) ==
  IF s = << >> THEN acc ELSE DigitsVal(Tail(s), 10 * acc + DigitVal(s[1]))

\* str::parse::<i64>() (and ::<i32>()): an optional sign and at least one digit,
\* nothing else; None for anything else. The modelled values stay far from the
\* integer limits.
ParseInt(s) ==
  LET body == IF s # << >> /\ s[1] \in { "+", "-" } THEN Tail(s) ELSE s
  IN  IF body = << >> \/ \E i \in 1..Len(body) : ~IsDigit(body[i]) THEN None
      ELSE IF s[1] = "-" THEN Some(0 - DigitsVal(body, 0)) ELSE Some(DigitsVal(body, 0))

\* n copies of byte c.
Repeat(c, n) == [ i \in 1..n |-> c ]

Spaces(n) == Repeat(" ", n)

RECURSIVE NatToStr(_)
NatToStr(n) == IF n < 10 THEN << Digits[n + 1] >> ELSE NatToStr(n \div 10) \o << Digits[(n % 10) + 1] >>

\* The decimal text of an integer, as a FITS writer prints it.
IntToStr(n) == IF n < 0 THEN << "-" >> \o NatToStr(0 - n) ELSE NatToStr(n)

---------------------------------------------------------------------------
(* fits.rs: the header reader                                              *)

\* A header record (card) is 80 bytes; a FITS block is 2880 bytes.
CardLen == 80
BlockLen == 2880
\* The key is the first 8 bytes of a card.
KeyLen == 8

\* slice::chunks_exact(n): the whole chunks only, a shorter rest is dropped.
ChunksExact(bytes, n) ==
  [ i \in 1..(Len(bytes) \div n) |-> SubSeq(bytes, (i - 1) * n + 1, i * n) ]

K_END == << "E", "N", "D" >>
K_COMMENT == << "C", "O", "M", "M", "E", "N", "T" >>
K_HISTORY == << "H", "I", "S", "T", "O", "R", "Y" >>
K_CONTINUE == << "C", "O", "N", "T", "I", "N", "U", "E" >>
K_BITPIX == << "B", "I", "T", "P", "I", "X" >>
K_NAXIS == << "N", "A", "X", "I", "S" >>
K_BAYERPAT == << "B", "A", "Y", "E", "R", "P", "A", "T" >>
K_COLORTYP == << "C", "O", "L", "O", "R", "T", "Y", "P" >>
K_INSTRUME == << "I", "N", "S", "T", "R", "U", "M", "E" >>
ValueIndicator == << "=", " " >>
Quote == << "'" >>

\* The test of line 577 on one 80-byte record: does it start an END card?
IsEndRecord(rec) ==
  \/ StartsWith(rec, K_END \o Spaces(5))
  \/ StartsWith(rec, K_END \o Spaces(2))
  \/ rec = K_END \o Spaces(77)

\* The scan of one block for an END record (lines 576-581).
BlockHasEnd(block) ==
  \E i \in 1..(Len(block) \div CardLen) :
     IsEndRecord(SubSeq(block, (i - 1) * CardLen + 1, i * CardLen))

RECURSIVE ClosingQuote(_, _)
\* The loop of strip_fits_comment over a quoted string, from 0-based position i:
\* the position of the closing quote (a doubled quote is skipped), or None.
ClosingQuote(s, i) ==
  IF i >= Len(s) THEN None
  ELSE IF s[i + 1] = "'"
    THEN IF i + 1 < Len(s) /\ s[i + 2] = "'" THEN ClosingQuote(s, i + 2) ELSE Some(i)
    ELSE ClosingQuote(s, i + 1)

\* strip_fits_comment: the value field without its " / comment".
strip_fits_comment(s0) ==
  LET s == Trim(s0)
  IN  IF StartsWith(s, Quote)
        THEN LET close == ClosingQuote(s, 1)
             IN  IF close = None THEN s ELSE Upto(s, Unwrap(close) + 1)
        ELSE LET pos == Find(s, << " ", "/", " " >>)
             IN  IF pos = None THEN s ELSE TrimEnd(Upto(s, Unwrap(pos)))

\* The value of a card (lines 603-618); card is the record after trim_end.
CardValue(card) ==
  IF Len(card) > 10 /\ SubSeq(card, 9, 10) = ValueIndicator
    THEN LET val_str == Trim(strip_fits_comment(Trim(From(card, 10))))
         IN  IF StartsWith(val_str, Quote) /\ EndsWith(val_str, Quote) /\ Len(val_str) >= 2
               THEN Trim(ReplaceQuotes(SubSeq(val_str, 2, Len(val_str) - 1)))
               ELSE val_str
    ELSE IF Len(card) > KeyLen THEN Trim(From(card, KeyLen))
    ELSE << >>

\* The keys of the structural and commentary records (lines 594-598).
IsStructuralKey(key) ==
  key = << >> \/ key \in { K_COMMENT, K_HISTORY, K_END, K_CONTINUE }

\* Whether the parse loop keeps a record (lines 588-601).
CardKept(rec) ==
  LET card == TrimEnd(rec)
  IN  Len(card) >= KeyLen /\ ~IsStructuralKey(Trim(Upto(card, KeyLen)))

\* The (key, value) pair pushed for a kept record (lines 592, 619).
CardPair(rec) ==
  LET card == TrimEnd(rec)
  IN  << Trim(Upto(card, KeyLen)), CardValue(card) >>

RECURSIVE CollectPairs(_, _)
\* The parse loop over the records of header_bytes, in file order.
CollectPairs(recs, i) ==
  IF i > Len(recs) THEN << >>
  ELSE IF CardKept(recs[i]) THEN << CardPair(recs[i]) >> \o CollectPairs(recs, i + 1)
  ELSE CollectPairs(recs, i + 1)

RECURSIVE InsertByKey(_, _)
\* Insert pair p into the sorted list after every pair whose key is <= its key.
InsertByKey(sorted, p) ==
  IF sorted = << >> THEN << p >>
  ELSE IF StrLess(p[1], sorted[1][1]) THEN << p >> \o sorted
  ELSE << sorted[1] >> \o InsertByKey(Tail(sorted), p)

RECURSIVE SortByKey(_, _)
\* headers.sort_by(|a, b| a.0.cmp(&b.0)): a stable sort on the key.
SortByKey(pairs, acc) ==
  IF pairs = << >> THEN acc ELSE SortByKey(Tail(pairs), InsertByKey(acc, pairs[1]))

\* Lines 586-622: the headers returned for the target HDU.
ParseHeaders(header_bytes) ==
  SortByKey(CollectPairs(ChunksExact(header_bytes, CardLen), 1), << >>)

\* format!("{key:<8}")
PadKey(key) == key \o Spaces(KeyLen - Len(key))

RECURSIVE FindHeaderIntFrom(_, _, _)
FindHeaderIntFrom(recs, key_padded, i) ==
  IF i > Len(recs) THEN None
  ELSE IF StartsWith(recs[i], key_padded)
          /\ Len(recs[i]) > 10 /\ SubSeq(recs[i], 9, 10) = ValueIndicator
    THEN ParseInt(Trim(strip_fits_comment(Trim(From(recs[i], 10)))))
  ELSE FindHeaderIntFrom(recs, key_padded, i + 1)

\* find_header_int: the integer value of the first record of that keyword that
\* has a value indicator; None when there is none or it is no integer.
find_header_int(header_bytes, key) ==
  FindHeaderIntFrom(ChunksExact(header_bytes, CardLen), PadKey(key), 1)

Max(a, b) == IF a >= b THEN a ELSE b
Min(a, b) == IF a <= b THEN a ELSE b
Abs(a) == IF a < 0 THEN 0 - a ELSE a

RECURSIVE AxisProduct(_, _, _)
\* The loop of lines 635-639: the product of NAXIS1..NAXISn, a missing axis
\* counting 0 and a negative one 0.
AxisProduct(header_bytes, i, naxis) ==
  IF i > naxis THEN 1
  ELSE Max(UnwrapOr(find_header_int(header_bytes, K_NAXIS \o IntToStr(i)), 0), 0)
         * AxisProduct(header_bytes, i + 1, naxis)

\* Lines 629-645: the bytes of data to skip after a header, rounded up to blocks.
DataSize(header_bytes) ==
  LET bitpix == UnwrapOr(find_header_int(header_bytes, K_BITPIX), 8)
      naxis == UnwrapOr(find_header_int(header_bytes, K_NAXIS), 0)
      raw == IF naxis = 0 THEN 0
             ELSE (AxisProduct(header_bytes, 1, naxis) * Abs(bitpix) + 7) \div 8
  IN  IF raw % BlockLen # 0 THEN raw + (BlockLen - (raw % BlockLen)) ELSE raw

---------------------------------------------------------------------------
(* The files on disk. A path is identified with the description of the     *)
(* file it names: whether it exists, its HDUs in file order, and how many  *)
(* bytes are missing from its end (a truncated file).                      *)
(*                                                                         *)
(* An HDU is described by the texts of its header cards before END, by     *)
(* whether it has an END card, by the cards that follow END, by the number *)
(* of blank cards put before END (which moves END to a later block), by    *)
(* its data blocks, and by what the FITS library reports for it: info is   *)
(* <<"image", shape>> or <<"table">>, samples the stored pixel values.     *)

CardsPerBlock == BlockLen \div CardLen

\* The card texts of a header in file order: the cards, the blank cards, END,
\* and what follows END.
HeaderRecords(h) ==
  h.cards \o [ i \in 1..h.fill |-> << >> ]
    \o (IF h.hasEnd THEN << K_END >> ELSE << >>) \o h.tail

\* The blocks the header of an HDU takes (at least one).
HeaderBlockCount(h) ==
  Max(1, (Len(HeaderRecords(h)) + CardsPerBlock - 1) \div CardsPerBlock)

\* The header of one HDU as bytes: 80-byte records, blank-padded to whole blocks.
HeaderBytes(h) ==
  LET recs == HeaderRecords(h)
      blocks == HeaderBlockCount(h)
  IN  [ k \in 1..(blocks * BlockLen) |->
          LET c == ((k - 1) \div CardLen) + 1
              o == ((k - 1) % CardLen) + 1
          IN  IF c <= Len(recs) /\ o <= Len(recs[c]) THEN recs[c][o] ELSE " " ]

\* One HDU as bytes: its header blocks, then its data blocks.
HduBytes(h) == HeaderBytes(h) \o Repeat("NUL", h.dataBlocks * BlockLen)

RECURSIVE ConcatHdus(_, _)
ConcatHdus(hdus, i) ==
  IF i > Len(hdus) THEN << >> ELSE HduBytes(hdus[i]) \o ConcatHdus(hdus, i + 1)

\* The bytes of the file at a path (the path exists).
FileBytes(path) ==
  LET whole == ConcatHdus(path.hdus, 1)
  IN  SubSeq(whole, 1, Max(0, Len(whole) - path.cut))

RECURSIVE BlocksOfHdus(_, _)
\* The blocks of the first k HDUs.
BlocksOfHdus(hdus, k) ==
  IF k = 0 THEN 0
  ELSE BlocksOfHdus(hdus, k - 1) + HeaderBlockCount(hdus[k]) + hdus[k].dataBlocks

\* The length of the file at a path: Len(FileBytes(path)).
FileLen(path) == Max(0, BlocksOfHdus(path.hdus, Len(path.hdus)) * BlockLen - path.cut)

---------------------------------------------------------------------------
(* fits.rs: read_headers as a step function on the reader's state          *)
(* rd = [pc, pos, header_bytes, hdus_seen, result]                         *)

OpenError == "opening for header read"
ReadError == "reading FITS header block"

Ok(v) == [ ok |-> TRUE, val |-> v ]
Err(e) == [ ok |-> FALSE, err |-> e ]

RdStart ==
  [ pc |-> "open", pos |-> 0, header_bytes |-> << >>, hdus_seen |-> 0, result |-> None ]

\* File::open with its error dropped.
RdOpenUnchecked(path, rd) == [ rd EXCEPT !.pc = "read_block" ]

\* Lines 558-560: File::open.
RdOpen(path, rd) ==
  IF path.exists
    THEN [ rd EXCEPT !.pc = "read_block" ]
    ELSE [ rd EXCEPT !.pc = "done", !.result = Some(Err(OpenError)) ]

\* Lines 571-582: one round of the inner loop: read_exact of one block, which
\* fails when fewer than 2880 bytes are left, then the scan for END.
RdReadBlock(path, rd) ==
  LET bytes == FileBytes(path)
  IN  IF rd.pos + BlockLen > Len(bytes)
        THEN [ rd EXCEPT !.pc = "done", !.result = Some(Err(ReadError)) ]
        ELSE LET block == SubSeq(bytes, rd.pos + 1, rd.pos + BlockLen)
             IN  [ rd EXCEPT !.pos = rd.pos + BlockLen,
                             !.header_bytes = rd.header_bytes \o block,
                             !.pc = IF BlockHasEnd(block) THEN "found_end" ELSE "read_block" ]

\* Lines 584-623: the target HDU is reached: parse and return.
RdReturn(rd) ==
  [ rd EXCEPT !.pc = "done", !.result = Some(Ok(ParseHeaders(rd.header_bytes))) ]

\* Lines 625-649: not the target: count the HDU and seek past its data.
RdSkipData(rd) ==
  [ rd EXCEPT !.hdus_seen = rd.hdus_seen + 1,
              !.pos = rd.pos + DataSize(rd.header_bytes),
              !.header_bytes = << >>,
              !.pc = "read_block" ]

\* One step of read_headers.
RdStep(path, hdu_idx, rd) ==
  CASE rd.pc = "open" -> RdOpen(path, rd)
    [] rd.pc = "read_block" -> RdReadBlock(path, rd)
    [] rd.pc = "found_end" ->
         IF rd.hdus_seen = hdu_idx THEN RdReturn(rd) ELSE RdSkipData(rd)
    [] OTHER -> rd

RECURSIVE RdRun(_, _, _)
RdRun(path, hdu_idx, rd) ==
  IF rd.pc = "done" THEN rd ELSE RdRun(path, hdu_idx, RdStep(path, hdu_idx, rd))

\* read_headers(fits_path, hdu_idx): the Result it returns.
read_headers(path, hdu_idx) == Unwrap(RdRun(path, hdu_idx, RdStart).result)

---------------------------------------------------------------------------
(* fits.rs: the Bayer detector                                             *)

\* The four CFA patterns, as header values name them.
V_RGGB == << "R", "G", "G", "B" >>
V_BGGR == << "B", "G", "G", "R" >>
V_GRBG == << "G", "R", "B", "G" >>
V_GBRG == << "G", "B", "R", "G" >>
V_COLOR == << "C", "O", "L", "O", "R" >>
V_COLOUR == << "C", "O", "L", "O", "U", "R" >>
V_OSC == << "O", "S", "C" >>

RECURSIVE FindValueExact(_, _, _)
\* The lookup without trim().to_uppercase().
FindValueExact(headers, key, i) ==
  IF i > Len(headers) THEN None
  ELSE IF headers[i][1] = key THEN Some(headers[i][2])
  ELSE FindValueExact(headers, key, i + 1)

RECURSIVE FindValue(_, _, _)
\* headers.iter().find(|(k, _)| k == key).map(|(_, v)| v.trim().to_uppercase())
FindValue(headers, key, i) ==
  IF i > Len(headers) THEN None
  ELSE IF headers[i][1] = key THEN Some(ToUpper(Trim(headers[i][2])))
  ELSE FindValue(headers, key, i + 1)

\* The match of lines 170-176 and 184-190: the CFA a value names, or None.
CfaNamed(v) ==
  CASE v = Some(V_RGGB) -> Some("RGGB")
    [] v = Some(V_BGGR) -> Some("BGGR")
    [] v = Some(V_GRBG) -> Some("GRBG")
    [] v = Some(V_GBRG) -> Some("GBRG")
    [] OTHER -> None

\* The guard of line 201 on the INSTRUME value.
IsColourInstrument(v) ==
  /\ IsSome(v)
  /\ \/ Contains(Unwrap(v), V_COLOR)
     \/ Contains(Unwrap(v), V_COLOUR)
     \/ Contains(Unwrap(v), V_OSC)

\* detect_bayer_pattern: Some(CFA) or None.
detect_bayer_pattern(headers) ==
  LET pat == CfaNamed(FindValue(headers, K_BAYERPAT, 1))
      colortyp == CfaNamed(FindValue(headers, K_COLORTYP, 1))
      instrume == FindValue(headers, K_INSTRUME, 1)
  IN  IF IsSome(pat) THEN pat
      ELSE IF IsSome(colortyp) THEN colortyp
      ELSE IF IsColourInstrument(instrume) THEN Some("RGGB")
      ELSE None

---------------------------------------------------------------------------
(* fits.rs: FitsImage::load                                                *)

OpenFitsError == "opening"
NotFoundError == "no image HDU found in file"
UnsupportedError == "unsupported FITS image NAXIS"
ReadImageError == "read_image"

RECURSIVE Product(_)
\* shape.iter().product::<usize>()
Product(shape) ==
  IF shape = << >> THEN 1 ELSE shape[1] * Product(Tail(shape))

\* The test without the product of the axis lengths.
HasShape(h) == h.info[1] = "image" /\ h.info[2] # << >>

\* The test of lines 55-56 on one HDU: an image whose shape is not empty and
\* whose axis lengths have a product above 0.
HasImageData(h) ==
  h.info[1] = "image" /\ h.info[2] # << >> /\ Product(h.info[2]) > 0

RECURSIVE FindImageHdu(_, _)
\* The loop of lines 51-61 from index i: the first HDU with image data.
FindImageHdu(hdus, i) ==
  IF i >= Len(hdus) THEN None
  ELSE IF HasImageData(hdus[i + 1]) THEN Some(i)
  ELSE FindImageHdu(hdus, i + 1)

\* The dimensions with the first two axes swapped.
ShapeDimsSwapped(shape) ==
  CASE Len(shape) = 2 -> Some(<< shape[2], shape[1], 1 >>)
    [] Len(shape) = 3 -> Some(<< shape[2], shape[1], shape[3] >>)
    [] OTHER -> None

\* Lines 69-76: (width, height, naxis3) of a shape, or None for an axis count
\* that is not supported.
ShapeDims(shape) ==
  CASE Len(shape) = 2 -> Some(<< shape[1], shape[2], 1 >>)
    [] Len(shape) = 3 -> Some(<< shape[1], shape[2], shape[3] >>)
    [] OTHER -> None

\* hdu.read_image::<Vec<u16>>: the stored values, which must fit 16 unsigned bits.
ReadImageU16(h) ==
  IF \A i \in 1..Len(h.samples) : h.samples[i] \in 0..65535
    THEN Ok(h.samples) ELSE Err(ReadImageError)

\* hdu.read_image::<Vec<f32>>: the stored values as floats.
ReadImageF32(h) == Ok(h.samples)

\* debayer_u16: three planes (R, G, B) of width * height samples each. The
\* interpolation is the bayer crate's; the model keeps only the layout of its
\* output and puts the mosaic value of a site in each of its three samples.
debayer_u16(raw, width, height, cfa) ==
  LET npix == width * height
  IN  [ k \in 1..(3 * npix) |-> raw[((k - 1) % npix) + 1] ]

\* Lines 100-110: the bit-depth ceiling from the BITPIX header.
BitdepthMax(headers) ==
  LET bitpix == IF \E i \in 1..Len(headers) : headers[i][1] = K_BITPIX
                  THEN ParseInt(Trim(headers[CHOOSE i \in 1..Len(headers) :
                         /\ headers[i][1] = K_BITPIX
                         /\ \A j \in 1..(i - 1) : headers[j][1] # K_BITPIX][2]))
                  ELSE None
  IN  IF bitpix = None THEN 0
      ELSE CASE Unwrap(bitpix) = 8 -> 255
             [] Unwrap(bitpix) = 16 -> 65535
             [] Unwrap(bitpix) = 32 -> 65535
             [] OTHER -> 0

\* The detector run whatever the plane count.
BayerCfaAnyPlanes(naxis3, headers) == detect_bayer_pattern(headers)

\* Lines 82-86: the detector runs on single-plane images only.
BayerCfa(naxis3, headers) ==
  IF naxis3 = 1 THEN detect_bayer_pattern(headers) ELSE None

\* Lines 78-121, once the HDU and its dimensions are known.
LoadHdu(path, idx, dims) ==
  LET width == dims[1]
      height == dims[2]
      naxis3 == dims[3]
      hdu == path.hdus[idx + 1]
      hres == read_headers(path, idx)
  IN  IF ~hres.ok THEN hres
      ELSE LET headers == hres.val
               cfa == BayerCfa(naxis3, headers)
           IN  IF IsSome(cfa)
                 THEN LET raw_u16 == ReadImageU16(hdu)
                      IN  IF ~raw_u16.ok THEN raw_u16
                          ELSE Ok([ width |-> width, height |-> height, channels |-> 3,
                                    data |-> debayer_u16(raw_u16.val, width, height,
                                                         Unwrap(cfa)),
                                    headers |-> headers, bitdepth_max |-> 65535 ])
                 ELSE LET raw == ReadImageF32(hdu)
                      IN  Ok([ width |-> width, height |-> height, channels |-> naxis3,
                               data |-> raw.val, headers |-> headers,
                               bitdepth_max |-> BitdepthMax(headers) ])

\* FitsImage::load(path): Ok(image) or Err(message).
Load(path) ==
  IF ~path.exists THEN Err(OpenFitsError)
  ELSE LET image_hdu_idx == FindImageHdu(path.hdus, 0)
       IN  IF image_hdu_idx = None THEN Err(NotFoundError)
           ELSE LET idx == Unwrap(image_hdu_idx)
                    dims == ShapeDims(path.hdus[idx + 1].info[2])
                IN  IF dims = None THEN Err(UnsupportedError)
                    ELSE LoadHdu(path, idx, Unwrap(dims))

---------------------------------------------------------------------------
(* fits.rs: FitsImage::to_rgba                                             *)

Rgb == << "Rgb" >>
Single(c) == << "Single", c >>
Stretches == { "Linear", "AutoStretch" }

Panic == [ panic |-> TRUE ]

\* &data[lo..hi]: the slice, or None where Rust panics (out of range).
Slice(data, lo, hi) ==
  IF lo <= hi /\ hi <= Len(data) THEN Some(SubSeq(data, lo + 1, hi)) ELSE None

\* The call to_rgba_gray(plane, stretch, bd) that to_rgba ends in.
GrayCall(plane, stretch, bd) ==
  IF plane = None THEN Panic
  ELSE [ fn |-> "to_rgba_gray", plane |-> Unwrap(plane), stretch |-> stretch,
         bitdepth_max |-> bd ]

\* The call to_rgba_rgb(r, g, b, stretch, bd) that to_rgba ends in.
RgbCall(r, g, b, stretch, bd) ==
  IF r = None \/ g = None \/ b = None THEN Panic
  ELSE [ fn |-> "to_rgba_rgb", r |-> Unwrap(r), g |-> Unwrap(g), b |-> Unwrap(b),
         stretch |-> stretch, bitdepth_max |-> bd ]

\* The channel index as asked for.
UnclampedChannel(c, channels) == c

\* The channel index of line 136: c.min(self.channels - 1).
ClampChannel(c, channels) == Min(c, channels - 1)

\* to_rgba(stretch, view) on an image of at least one channel: the planes it
\* slices and the stretch call it makes on them, or Panic.
to_rgba(img, stretch, view) ==
  LET npix == img.width * img.height
      bd == img.bitdepth_max
  IN  CASE img.channels = 1 -> GrayCall(Slice(img.data, 0, npix), stretch, bd)
        [] img.channels # 1 /\ view[1] = "Single" ->
             LET c == ClampChannel(view[2], img.channels)
                 offset == c * npix
             IN  GrayCall(Slice(img.data, offset, offset + npix), stretch, bd)
        [] img.channels = 3 /\ view = Rgb ->
             RgbCall(Slice(img.data, 0, npix), Slice(img.data, npix, 2 * npix),
                     Slice(img.data, 2 * npix, 3 * npix), stretch, bd)
        [] OTHER ->
             GrayCall(Slice(img.data, 0, Min(npix, Len(img.data))), stretch, bd)

---------------------------------------------------------------------------
(* The header reader's inputs                                              *)

\* "OBJECT  = 'M31'"
C_OBJECT_M31 == << "O", "B", "J", "E", "C", "T", " ", " ", "=", " ", "'", "M", "3", "1", "'" >>
\* "OBJECT  = 'M42     '           / target"
C_OBJECT_M42 == << "O", "B", "J", "E", "C", "T", " ", " ", "=", " ", "'", "M", "4", "2", " ", " ", " ", " ", " ", "'", " ", " ", " ", " ", " ", " ", " ", " ", " ", " ", " ", "/", " ", "t", "a", "r", "g", "e", "t" >>
\* 'EXPTIME =                   30 / seconds'
C_EXPTIME == << "E", "X", "P", "T", "I", "M", "E", " ", "=", " ", " ", " ", " ", " ", " ", " ", " ", " ", " ", " ", " ", " ", " ", " ", " ", " ", " ", " ", "3", "0", " ", "/", " ", "s", "e", "c", "o", "n", "d", "s" >>
\* 'COMMENT note'
C_COMMENT == << "C", "O", "M", "M", "E", "N", "T", " ", "n", "o", "t", "e" >>
\* 'HISTORY step'
C_HISTORY == << "H", "I", "S", "T", "O", "R", "Y", " ", "s", "t", "e", "p" >>
\* "CONTINUE  'more'"
C_CONTINUE == << "C", "O", "N", "T", "I", "N", "U", "E", " ", " ", "'", "m", "o", "r", "e", "'" >>
\* ''
C_BLANK == << >>
\* '        = 5'
C_NOKEY == << " ", " ", " ", " ", " ", " ", " ", " ", "=", " ", "5" >>
\* 'FOO'
C_SHORT == << "F", "O", "O" >>
\* 'DATAMODE'
C_KEYONLY == << "D", "A", "T", "A", "M", "O", "D", "E" >>
\* 'GAIN    =                  120'
C_DECOY == << "G", "A", "I", "N", " ", " ", " ", " ", "=", " ", " ", " ", " ", " ", " ", " ", " ", " ", " ", " ", " ", " ", " ", " ", " ", " ", " ", "1", "2", "0" >>

\* The card texts the free-form headers are made of.
CardTexts ==
  { C_OBJECT_M31, C_OBJECT_M42, C_EXPTIME, C_COMMENT, C_HISTORY, C_CONTINUE,
    C_BLANK, C_NOKEY, C_SHORT, C_KEYONLY }

\* The longest free-form header, in cards.
MaxCards == 2

RECURSIVE SeqsUpTo(_, _)
\* The sequences over S of length at most n.
SeqsUpTo(S, n) ==
  IF n = 0 THEN { << >> }
  ELSE LET shorter == SeqsUpTo(S, n - 1)
       IN  shorter \cup { Append(q, x) : q \in { r \in shorter : Len(r) = n - 1 }, x \in S }

\* "KEY     = <value right-justified to column 30>": a fixed-format integer card.
IntCard(key, n) ==
  LET v == IntToStr(n)
  IN  PadKey(key) \o ValueIndicator \o Spaces(20 - Len(v)) \o v

RECURSIVE AxisCards(_, _)
AxisCards(shape, i) ==
  IF i > Len(shape) THEN << >>
  ELSE << IntCard(K_NAXIS \o IntToStr(i), shape[i]) >> \o AxisCards(shape, i + 1)

\* The mandatory cards of an image HDU of that BITPIX and shape
\* (shape[i] is NAXISi, as the comment of lines 65-68 reads it).
MandatoryCards(bitpix, shape) ==
  << IntCard(K_BITPIX, bitpix), IntCard(K_NAXIS, Len(shape)) >> \o AxisCards(shape, 1)

\* The data blocks a FITS writer puts after such a header.
DataBlocksOf(bitpix, shape) ==
  IF shape = << >> THEN 0
  ELSE ((Product(shape) * Abs(bitpix) + 7) \div 8 + BlockLen - 1) \div BlockLen

\* A well-formed image HDU with the given extra cards.
ImageHdu(bitpix, shape, extra, samples) ==
  [ cards |-> MandatoryCards(bitpix, shape) \o extra, fill |-> 0, hasEnd |-> TRUE,
    tail |-> << >>, dataBlocks |-> DataBlocksOf(bitpix, shape),
    info |-> << "image", shape >>, samples |-> samples ]

\* A header made of free-form cards only, with no data.
FreeHdu(cards, fill, hasEnd, tail) ==
  [ cards |-> cards, fill |-> fill, hasEnd |-> hasEnd, tail |-> tail,
    dataBlocks |-> 0, info |-> << "image", << >> >>, samples |-> << >> ]

File(hdus, cut) == [ exists |-> TRUE, hdus |-> hdus, cut |-> cut ]
MissingFile == [ exists |-> FALSE, hdus |-> << >>, cut |-> 0 ]

\* The highest HDU index asked for.
MaxHduIdx == 2

\* Single-HDU files with every free-form header of at most MaxCards cards.
FreeFiles ==
  { File(<< FreeHdu(c, 0, TRUE, << >>) >>, 0) : c \in SeqsUpTo(CardTexts, MaxCards) }

\* Damaged and unusual single-HDU files: END missing, END in the second block,
\* a card after END, a byte or a block missing from the end of the file.
OddFiles ==
  { File(<< FreeHdu(c, fill, e, t) >>, cut) :
      c \in { << >>, << C_EXPTIME >>, << C_SHORT, C_OBJECT_M31 >> },
      fill \in { 0, CardsPerBlock }, e \in BOOLEAN,
      t \in { << >>, << C_DECOY >> }, cut \in { 0, 1, BlockLen } }

PrimaryShapes == { << >>, << 2, 2 >>, << 100, 50 >>, << 2, 2, 3 >>, << 0, 5 >> }
PrimaryBitpix == { 8, 16, -32 }

\* Two-HDU files: a primary image HDU, then a free-form extension header.
TwoHduFiles ==
  { File(<< ImageHdu(b, sh, << >>, << >>), FreeHdu(c, 0, TRUE, << >>) >>, cut) :
      b \in PrimaryBitpix, sh \in PrimaryShapes,
      c \in { << C_EXPTIME >>, << C_SHORT, C_OBJECT_M31 >> }, cut \in { 0, 1 } }

K_XTENSION == << "X", "T", "E", "N", "S", "I", "O", "N" >>
K_PCOUNT == << "P", "C", "O", "U", "N", "T" >>
K_GCOUNT == << "G", "C", "O", "U", "N", "T" >>
V_BINTABLE == << "B", "I", "N", "T", "A", "B", "L", "E" >>

\* A binary table extension of rows rows of width bytes with a heap of pcount
\* bytes after the table: its data takes width * rows + pcount bytes.
HeapTableHdu(width, rows, pcount) ==
  [ cards |-> << PadKey(K_XTENSION) \o ValueIndicator \o Quote \o V_BINTABLE \o Quote >>
                \o MandatoryCards(8, << width, rows >>)
                \o << IntCard(K_PCOUNT, pcount), IntCard(K_GCOUNT, 1) >>,
    fill |-> 0, hasEnd |-> TRUE, tail |-> << >>,
    dataBlocks |-> (width * rows + pcount + BlockLen - 1) \div BlockLen,
    info |-> << "table" >>, samples |-> << >> ]

\* Three-HDU files: a primary HDU without data, a binary table without and
\* with a heap, then a free-form extension header.
TableFiles ==
  { File(<< ImageHdu(8, << >>, << >>, << >>), HeapTableHdu(8, 3, pcount),
            FreeHdu(<< C_EXPTIME >>, 0, TRUE, << >>) >>, 0) : pcount \in { 0, 3000 } }

HeaderPaths == { MissingFile } \cup FreeFiles \cup OddFiles \cup TwoHduFiles \cup TableFiles

---------------------------------------------------------------------------
(* The Bayer detector's inputs: header values, each with the pattern it    *)
(* names (for INSTRUME: Some("RGGB") when it marks a colour camera).       *)

BayerpatValues ==
  { [ text |-> << "R", "G", "G", "B" >>, names |-> Some("RGGB") ],
    [ text |-> << "b", "g", "g", "r" >>, names |-> Some("BGGR") ],
    [ text |-> << " ", "G", "r", "B", "g", " " >>, names |-> Some("GRBG") ],
    [ text |-> << "G", "B", "R", "G" >>, names |-> Some("GBRG") ],
    [ text |-> << "T", "R", "U", "E" >>, names |-> None ],
    [ text |-> << "R", "G", "G", "B", "X" >>, names |-> None ] }

ColortypValues ==
  { [ text |-> << "g", "b", "r", "g" >>, names |-> Some("GBRG") ],
    [ text |-> << "R", "G", "G", "B" >>, names |-> Some("RGGB") ],
    [ text |-> << "B", "g", "g", "r" >>, names |-> Some("BGGR") ],
    [ text |-> << "G", "R", "B", "G" >>, names |-> Some("GRBG") ],
    [ text |-> << "R", "G", "B" >>, names |-> None ] }

InstrumeValues ==
  { [ text |-> << "Z", "W", "O", " ", "A", "S", "I", "2", "9", "4", "M", "C", " ", "O", "S", "C" >>, names |-> Some("RGGB") ],
    [ text |-> << "Q", "H", "Y", " ", "c", "o", "l", "o", "u", "r" >>, names |-> Some("RGGB") ],
    [ text |-> << "C", "o", "l", "o", "r", " ", "C", "a", "m" >>, names |-> Some("RGGB") ],
    [ text |-> << "A", "S", "I", "1", "6", "0", "0", "M", "M" >>, names |-> None ],
    [ text |-> << "A", "t", "i", "k", " ", "M", "o", "n", "o" >>, names |-> None ] }

Optional(S) == { None } \cup { Some(v) : v \in S }

\* What a header says on the three keys the detector reads.
BayerSources ==
  [ bayerpat : Optional(BayerpatValues), colortyp : Optional(ColortypValues),
    instrume : Optional(InstrumeValues) ]

PairIf(key, v) == IF v = None THEN << >> ELSE << << key, Unwrap(v).text >> >>

\* The header list read_headers gives for such a header (ordered by key).
HeadersOf(src) ==
  PairIf(K_BAYERPAT, src.bayerpat) \o << << K_BITPIX, << "1", "6" >> >> >>
    \o PairIf(K_COLORTYP, src.colortyp) \o PairIf(K_INSTRUME, src.instrume)

---------------------------------------------------------------------------
(* The loader's inputs                                                     *)

\* "KEY     = 'text'": a string card.
StrCard(key, text) == PadKey(key) \o ValueIndicator \o Quote \o text \o Quote

\* The cards a header carries for a BayerSources record.
CardIf(key, v) == IF v = None THEN << >> ELSE << StrCard(key, Unwrap(v).text) >>
BayerCards(src) ==
  CardIf(K_INSTRUME, src.instrume) \o CardIf(K_COLORTYP, src.colortyp)
    \o CardIf(K_BAYERPAT, src.bayerpat)

\* The stored values of an image of that shape: all different, so that a plane,
\* an HDU and a mosaic can be told from another.
SamplesOf(shape, base) == [ i \in 1..Product(shape) |-> base + i ]

\* An image HDU with its data.
DataHdu(bitpix, shape, src, base) ==
  ImageHdu(bitpix, shape, BayerCards(src), SamplesOf(shape, base))

\* A binary table extension of 3 rows of 8 bytes.
TableHdu ==
  [ cards |-> << StrCard(<< "X", "T", "E", "N", "S", "I", "O", "N" >>, << "B", "I", "N", "T", "A", "B", "L", "E" >>) >>
                \o MandatoryCards(8, << 8, 3 >>),
    fill |-> 0, hasEnd |-> TRUE, tail |-> << >>, dataBlocks |-> 1,
    info |-> << "table" >>, samples |-> << >> ]

\* HDUs the search of load passes over: no axes, an axis of length 0, a table.
SkippedHdus ==
  { ImageHdu(8, << >>, << >>, << >>), ImageHdu(16, << 0, 5 >>, << >>, << >>),
    ImageHdu(16, << 2, 0, 3 >>, << C_EXPTIME >>, << >>), TableHdu }

\* The most HDUs a file has in front of its first image.
MaxSkipped == 2

NoBayer == [ bayerpat |-> None, colortyp |-> None, instrume |-> None ]

\* The headers that images come with.
LoadSources ==
  { NoBayer,
    [ NoBayer EXCEPT !.bayerpat = Some([ text |-> << "b", "g", "g", "r" >>, names |-> Some("BGGR") ]) ],
    [ NoBayer EXCEPT !.bayerpat = Some([ text |-> << "T", "R", "U", "E" >>, names |-> None ]),
                     !.colortyp = Some([ text |-> << "G", "R", "B", "G" >>, names |-> Some("GRBG") ]) ],
    [ NoBayer EXCEPT !.instrume = Some([ text |-> << "Z", "W", "O", " ", "A", "S", "I", "2", "9", "4", "M", "C", " ", "O", "S", "C" >>, names |-> Some("RGGB") ]) ],
    [ NoBayer EXCEPT !.instrume = Some([ text |-> << "A", "S", "I", "1", "6", "0", "0", "M", "M" >>, names |-> None ]) ] }

LoadShapes ==
  { << 2, 2 >>, << 3, 2 >>, << 2, 2, 1 >>, << 2, 2, 3 >>, << 2, 2, 2 >>, << 2, 1, 4 >>,
    << 4 >>, << 2, 2, 1, 1 >> }

\* The first image of a file, and the claim's own example shapes.
FirstImages ==
  { DataHdu(b, sh, src, 0) : b \in { 8, 16 }, sh \in LoadShapes, src \in LoadSources }
    \cup { DataHdu(-32, << 2, 2 >>, NoBayer, -3), DataHdu(16, << 100, 50 >>, NoBayer, 0),
           DataHdu(16, << 100, 50, 3 >>, NoBayer, 0) }

\* The first images of the files that begin with skipped HDUs.
ImagesAfterSkipped ==
  { DataHdu(16, << 2, 2 >>, NoBayer, 0),
    DataHdu(16, << 2, 2 >>, CHOOSE src \in LoadSources : src.bayerpat # None /\ src.colortyp = None, 0),
    DataHdu(8, << 2, 2, 3 >>, NoBayer, 0), DataHdu(8, << 2, 2, 2 >>, NoBayer, 0),
    DataHdu(16, << 4 >>, NoBayer, 0) }

\* What follows the first image: nothing, or a second image.
LaterHdus == { << >>, << DataHdu(16, << 3, 1 >>, NoBayer, 100) >> }

\* Well-formed files: skipped HDUs, then images or nothing; and a missing file.
LoadPaths ==
  { MissingFile }
    \cup { File(skip, 0) : skip \in SeqsUpTo(SkippedHdus, MaxSkipped) \ { << >> } }
    \cup { File(<< img >> \o later, 0) : img \in FirstImages, later \in LaterHdus }
    \cup { File(skip \o << img >> \o later, 0) :
             skip \in SeqsUpTo(SkippedHdus, MaxSkipped) \ { << >> },
             img \in ImagesAfterSkipped, later \in LaterHdus }

\* The highest channel index a view asks for.
MaxChannel == 4

Views == { Rgb } \cup { Single(c) : c \in 0..MaxChannel }

---------------------------------------------------------------------------
(* app.rs: the viewer. A FastFitsApp value is a record of the fields       *)
(* files, selected, image, texture, load_error, load_rx, stretch,          *)
(* channel_view, delete_status, show_prefs, demosaic_mode, loading_name    *)
(* (zoom and show_help are left out: nothing else depends on them).        *)
(* A path of the directory is a number; load_rx is None or                 *)
(* Some([file, result, msg]): the receiving end of the channel of the      *)
(* thread that loads file, with the state of that thread: result is None   *)
(* until the thread has run load, msg until it has sent its LoadResult.    *)
(* The thread of a receiver that was dropped cannot be heard: it is not    *)
(* kept. The disk is a function from the paths that exist to what          *)
(* FitsImage::load returns on them.                                        *)

\* The FITS files of the directory.
NumFiles == 3
AppPaths == 1..NumFiles

\* What is stored at a path: a Bayer mosaic, a monochrome image, or a file
\* with no image in it.
AppFile(f) ==
  CASE f % 3 = 1 ->
         File(<< DataHdu(16, << 2, 2 >>,
                         CHOOSE src \in LoadSources :
                           src.bayerpat # None /\ src.colortyp = None, 10 * f) >>, 0)
    [] f % 3 = 2 -> File(<< DataHdu(16, << 2, 2 >>, NoBayer, 10 * f) >>, 0)
    [] OTHER -> File(<< ImageHdu(8, << >>, << >>, << >>) >>, 0)

\* The disk with every file of the directory on it. The copy of fits.rs at hand
\* takes no demosaic mode: what load returns does not depend on it.
FullDisk == [ f \in AppPaths |-> Load(AppFile(f)) ]
EmptyDisk == << >>

\* FitsImage::load(&path, demosaic) on the disk d: FitsFile::open fails on a
\* path that is not there (fits.rs, lines 47-48).
Decode(d, f) == IF f \in DOMAIN d THEN d[f] ELSE Err(OpenFitsError)

\* The disk after the file at a path is moved to the trash or removed.
Without(d, f) == [ g \in DOMAIN d \ { f } |-> d[g] ]

\* Lines 103-107 and 226-230: the view a new image is shown with.
ViewFor(img) == IF img.channels >= 3 THEN Rgb ELSE Single(0)

\* self.files.get(idx)
FileAt(self, idx) ==
  IF idx < Len(self.files) THEN Some(self.files[idx + 1]) ELSE None

load_selected(self, d) ==
  LET cleared == [ self EXCEPT !.texture = None, !.load_error = None, !.image = None ]
  IN  IF self.selected = None \/ FileAt(self, Unwrap(self.selected)) = None THEN cleared
      ELSE LET res == Decode(d, Unwrap(FileAt(self, Unwrap(self.selected))))
           IN  IF res.ok
                 THEN [ cleared EXCEPT !.channel_view = ViewFor(res.val),
                                       !.image = Some(res.val) ]
                 ELSE [ cleared EXCEPT !.load_error = Some(res.err) ]

\* FastFitsApp::new with the files of d in the directory, start being the
\* index of the start path in the list, or None when it is not in it.
new(files, start, d) ==
  load_selected(
    [ files |-> files, selected |-> start, image |-> None, texture |-> None,
      load_error |-> None, load_rx |-> None, stretch |-> "AutoStretch",
      channel_view |-> Rgb, delete_status |-> None, show_prefs |-> FALSE,
      demosaic_mode |-> "Bilinear", loading_name |-> None ], d)

rebuild_texture(self) ==
  IF self.image = None THEN self
  ELSE [ self EXCEPT !.texture =
           Some(to_rgba(Unwrap(self.image), self.stretch, self.channel_view)) ]

\* select(idx): the old receiver is dropped and a thread is started on the file.
select(self, idx) ==
  IF self.selected = Some(idx) THEN self
  ELSE [ self EXCEPT !.selected = Some(idx), !.image = None, !.texture = None,
                     !.load_error = None,
                     !.loading_name = FileAt(self, idx),
                     !.load_rx = IF FileAt(self, idx) = None THEN None
                                 ELSE Some([ file |-> Unwrap(FileAt(self, idx)),
                                             result |-> None, msg |-> None ]) ]

\* select_next without the wrap to index 0.
SelectNextNoWrap(self) ==
  IF self.files = << >> THEN self
  ELSE select(self, IF self.selected = None THEN 0 ELSE Unwrap(self.selected) + 1)

select_next(self) ==
  IF self.files = << >> THEN self
  ELSE select(self, IF self.selected = None THEN 0
                    ELSE (Unwrap(self.selected) + 1) % Len(self.files))

select_prev(self) ==
  IF self.files = << >> THEN self
  ELSE select(self, IF self.selected = None THEN 0
                    ELSE IF Unwrap(self.selected) = 0 THEN Len(self.files) - 1
                    ELSE Unwrap(self.selected) - 1)

\* The list without its first entry, whatever the index.
RemoveFirst(q, idx) == Tail(q)

\* Vec::remove(idx)
Remove(q, idx) == SubSeq(q, 1, idx) \o SubSeq(q, idx + 2, Len(q))

\* delete_selected, removed telling whether trash::delete or remove_file
\* succeeded: the new FastFitsApp value and the files left on disk.
delete_selected(self, d, removed) ==
  IF self.selected = None \/ FileAt(self, Unwrap(self.selected)) = None
    THEN [ app |-> self, disk |-> d ]
  ELSE IF ~removed
    THEN [ app |-> [ self EXCEPT !.delete_status = Some("Delete failed") ], disk |-> d ]
  ELSE LET idx == Unwrap(self.selected)
           left == Without(d, self.files[idx + 1])
           gone == [ self EXCEPT !.files = Remove(self.files, idx), !.image = None,
                                 !.texture = None, !.load_error = None,
                                 !.delete_status = None ]
       IN  IF gone.files = << >>
             THEN [ app |-> [ gone EXCEPT !.selected = None ], disk |-> left ]
             ELSE [ app |-> load_selected(
                              [ gone EXCEPT !.selected =
                                  Some(Min(idx, Len(gone.files) - 1)) ], left),
                    disk |-> left ]

reload_image(self) ==
  LET cleared == [ self EXCEPT !.image = None, !.texture = None, !.load_rx = None ]
  IN  IF self.selected = None THEN cleared
      ELSE select([ cleared EXCEPT !.selected = None ], Unwrap(self.selected))

\* The field is_bayer of an image, which line 348 reads: the image was demosaiced.
is_bayer(img) == img.channels = 3 /\ IsSome(detect_bayer_pattern(img.headers))

---------------------------------------------------------------------------
(* app.rs: update, one frame. The input of a frame is at most one event    *)
(* ev = [kind, arg]: a key pressed or a widget clicked.                    *)

NoEvent == [ kind |-> "none", arg |-> 0 ]
Event(kind, arg) == [ kind |-> kind, arg |-> arg ]

ToggleStretch(self) ==
  [ self EXCEPT !.stretch = IF self.stretch = "AutoStretch" THEN "Linear"
                            ELSE "AutoStretch",
                !.texture = None ]

\* A poll that never takes the result.
PollNothing(self) == self

\* Lines 220-238: take the result of the background load, if it has come.
Poll(self) ==
  IF self.load_rx = None \/ Unwrap(self.load_rx).msg = None THEN self
  ELSE LET result == Unwrap(Unwrap(self.load_rx).msg)
           taken == [ self EXCEPT !.load_rx = None, !.loading_name = None ]
       IN  IF result.ok
             THEN [ taken EXCEPT !.channel_view = ViewFor(result.val),
                                 !.image = Some(result.val) ]
             ELSE [ taken EXCEPT !.load_error = Some(result.err) ]

\* Lines 272-307: the keyboard shortcuts.
Keys(self, d, ev) ==
  CASE ev.kind = "go_next" -> [ app |-> select_next(self), disk |-> d ]
    [] ev.kind = "go_prev" -> [ app |-> select_prev(self), disk |-> d ]
    [] ev.kind = "toggle_stretch" -> [ app |-> ToggleStretch(self), disk |-> d ]
    [] ev.kind = "do_delete" -> delete_selected(self, d, ev.arg)
    [] ev.kind = "toggle_prefs" ->
         [ app |-> [ self EXCEPT !.show_prefs = ~self.show_prefs ], disk |-> d ]
    [] ev.kind = "close_popup" ->
         [ app |-> [ self EXCEPT !.show_prefs = FALSE ], disk |-> d ]
    [] OTHER -> [ app |-> self, disk |-> d ]

\* Lines 341-372: the Preferences dialog, when it is open.
PrefsDialog(self, ev) ==
  IF ~self.show_prefs THEN self
  ELSE CASE ev.kind = "prefs_mode" ->
              IF /\ self.image # None /\ is_bayer(Unwrap(self.image))
                 /\ self.demosaic_mode # ev.arg
                THEN reload_image([ self EXCEPT !.demosaic_mode = ev.arg ])
                ELSE self
         [] ev.kind = "prefs_close" -> [ self EXCEPT !.show_prefs = FALSE ]
         [] OTHER -> self

\* Lines 375-377.
EnsureTexture(self) ==
  IF self.image # None /\ self.texture = None THEN rebuild_texture(self) ELSE self

\* Lines 380-426: the bottom toolbar.
NavBar(self, d, ev) ==
  CASE ev.kind = "status_x" /\ self.delete_status # None ->
         [ app |-> [ self EXCEPT !.delete_status = None ], disk |-> d ]
    [] ev.kind = "prev_btn" /\ self.files # << >> ->
         [ app |-> select_prev(self), disk |-> d ]
    [] ev.kind = "next_btn" /\ self.files # << >> ->
         [ app |-> select_next(self), disk |-> d ]
    [] ev.kind = "del_btn" /\ self.selected # None -> delete_selected(self, d, ev.arg)
    [] OTHER -> [ app |-> self, disk |-> d ]

\* Lines 429-507: the menu bar.
MenuBar(self, ev) ==
  CASE ev.kind = "menu_prefs" -> [ self EXCEPT !.show_prefs = ~self.show_prefs ]
    [] ev.kind = "menu_stretch" -> ToggleStretch(self)
    [] ev.kind = "menu_channel" /\ self.image # None ->
         IF Unwrap(self.image).channels >= 3 /\ ev.arg < Unwrap(self.image).channels
           THEN [ self EXCEPT !.channel_view = Single(ev.arg), !.texture = None ]
           ELSE self
    [] ev.kind = "menu_rgb" /\ self.image # None ->
         IF Unwrap(self.image).channels >= 3
           THEN [ self EXCEPT !.channel_view = Rgb, !.texture = None ]
           ELSE self
    [] OTHER -> self

\* Lines 546-565: the file browser.
FileBrowser(self, ev) ==
  IF ev.kind = "browser" /\ ev.arg < Len(self.files) THEN select(self, ev.arg) ELSE self

\* Whether the widget that the event clicks is drawn, and enabled, when the
\* frame comes to it: keyed is the state after the keys, textured after the
\* texture is ensured, nav after the toolbar, menu after the menu bar.
OnScreen(ev, keyed, textured, nav, menu) ==
  CASE ev.kind = "prefs_mode" ->
         /\ keyed.show_prefs
         /\ keyed.image # None /\ is_bayer(Unwrap(keyed.image))
    [] ev.kind = "prefs_close" -> keyed.show_prefs
    [] ev.kind = "status_x" -> textured.delete_status # None
    [] ev.kind \in { "prev_btn", "next_btn" } -> textured.files # << >>
    [] ev.kind = "del_btn" -> textured.selected # None
    [] ev.kind \in { "menu_channel", "menu_rgb" } ->
         /\ nav.image # None
         /\ Unwrap(nav.image).channels >= 3
         /\ ev.arg < Unwrap(nav.image).channels
    [] ev.kind = "browser" -> ev.arg < Len(menu.files)
    [] OTHER -> TRUE

\* Lines 509-605: the rest of the frame after the menu bar.
AfterMenuBar(ev, keyed, textured, nav, menu) ==
  [ app |-> FileBrowser(menu, ev), disk |-> nav.disk,
    on_screen |-> OnScreen(ev, keyed.app, textured, nav.app, menu) ]

\* Lines 428-605: the rest of the frame after the toolbar.
AfterNavBar(ev, keyed, textured, nav) ==
  AfterMenuBar(ev, keyed, textured, nav, MenuBar(nav.app, ev))

\* Lines 379-605: the rest of the frame after the texture is ensured.
AfterTexture(ev, keyed, textured) ==
  AfterNavBar(ev, keyed, textured, NavBar(textured, keyed.disk, ev))

\* Lines 309-605: the rest of the frame after the keys.
AfterKeys(ev, keyed) ==
  AfterTexture(ev, keyed, EnsureTexture(PrefsDialog(keyed.app, ev)))

\* update: the FastFitsApp value and the disk at the end of the frame, and
\* whether the widget of the event was on screen.
Frame(self, d, ev) == AfterKeys(ev, Keys(Poll(self), d, ev))

---------------------------------------------------------------------------
(* f32: IEEE-754 single precision, round to nearest even                   *)

\* A finite f32 is (-1)^neg * m * 2^e with m = 0 or MantMin <= m < MantMax and
\* e <= MaxExp; a result past f32::MAX is an infinity. The samples and curves
\* of this model stay above the subnormal range.
MantBits == 24
MantMax == 16777216
MantMin == 8388608
MaxExp == 104

Fin(neg, m, e) == [ cls |-> "fin", neg |-> neg, m |-> m, e |-> e ]
Zero == Fin(FALSE, 0, 0)
NaN == [ cls |-> "nan", neg |-> FALSE, m |-> 0, e |-> 0 ]
Inf == [ cls |-> "inf", neg |-> FALSE, m |-> 0, e |-> 0 ]
NegInf == [ cls |-> "inf", neg |-> TRUE, m |-> 0, e |-> 0 ]

\* m * 2^e with MantMin <= m < MantMax, or the infinity it overflows to.
Finite(neg, m, e) ==
  IF e > MaxExp THEN (IF neg THEN NegInf ELSE Inf) ELSE Fin(neg, m, e)

is_finite(a) == a.cls = "fin"
IsZero(a) == a.cls = "fin" /\ a.m = 0

\* The number of bits of n, for 1 <= n < 2^30.
BitLen(n) ==
  IF n < 32768
    THEN IF n < 128
           THEN IF n < 8 THEN (IF n < 2 THEN 1 ELSE IF n < 4 THEN 2 ELSE 3)
                ELSE IF n < 32 THEN (IF n < 16 THEN 4 ELSE 5)
                ELSE (IF n < 64 THEN 6 ELSE 7)
           ELSE IF n < 2048
                  THEN IF n < 512 THEN (IF n < 256 THEN 8 ELSE 9)
                       ELSE (IF n < 1024 THEN 10 ELSE 11)
                  ELSE IF n < 8192 THEN (IF n < 4096 THEN 12 ELSE 13)
                       ELSE (IF n < 16384 THEN 14 ELSE 15)
    ELSE IF n < 8388608
           THEN IF n < 524288
                  THEN IF n < 131072 THEN (IF n < 65536 THEN 16 ELSE 17)
                       ELSE (IF n < 262144 THEN 18 ELSE 19)
                  ELSE IF n < 2097152 THEN (IF n < 1048576 THEN 20 ELSE 21)
                       ELSE (IF n < 4194304 THEN 22 ELSE 23)
           ELSE IF n < 134217728
                  THEN IF n < 33554432 THEN (IF n < 16777216 THEN 24 ELSE 25)
                       ELSE (IF n < 67108864 THEN 26 ELSE 27)
                  ELSE IF n < 536870912 THEN (IF n < 268435456 THEN 28 ELSE 29)
                       ELSE 30

\* q * 2^(e + sh) with q < MantMax, one unit up when up.
RoundShift(neg, e, sh, q, up) ==
  IF up /\ q + 1 = MantMax THEN Finite(neg, MantMin, e + sh + 1)
  ELSE Finite(neg, IF up THEN q + 1 ELSE q, e + sh)

\* RoundF for sig of k bits: a tie goes to the even mantissa.
RoundBits(neg, sig, e, sticky, k) ==
  IF k <= MantBits
    THEN Finite(neg, sig * 2^(MantBits - k), e - (MantBits - k))
    ELSE RoundShift(neg, e, k - MantBits, sig \div 2^(k - MantBits),
                    \/ sig % 2^(k - MantBits) > 2^(k - MantBits - 1)
                    \/ /\ sig % 2^(k - MantBits) = 2^(k - MantBits - 1)
                       /\ (sticky \/ (sig \div 2^(k - MantBits)) % 2 = 1))

\* Round sig * 2^e (plus a nonzero fraction of 2^e when sticky) to 24 bits.
RoundF(neg, sig, e, sticky) ==
  IF sig = 0 THEN Zero ELSE RoundBits(neg, sig, e, sticky, BitLen(sig))

\* i as f32, for |i| < 2^30.
F32(i) == RoundF(i < 0, IF i < 0 THEN 0 - i ELSE i, 0, FALSE)

FNeg(a) == IF a.cls = "nan" \/ IsZero(a) THEN a ELSE [ a EXCEPT !.neg = ~a.neg ]
FAbs(a) == [ a EXCEPT !.neg = FALSE ]

\* |a| < |b| for finite a, b.
MagLt(a, b) ==
  IF a.m = 0 THEN b.m # 0
  ELSE b.m # 0 /\ (a.e < b.e \/ (a.e = b.e /\ a.m < b.m))

\* a < b; false when either is NaN.
FLt(a, b) ==
  CASE a.cls = "nan" \/ b.cls = "nan" -> FALSE
    [] a.cls = "inf" -> a.neg /\ ~(b.cls = "inf" /\ b.neg)
    [] b.cls = "inf" -> ~b.neg
    [] OTHER -> IF a.neg # b.neg THEN a.neg
                ELSE IF a.neg THEN MagLt(b, a) ELSE MagLt(a, b)

FEq(a, b) == a.cls # "nan" /\ b.cls # "nan" /\ a = b
FLe(a, b) == FLt(a, b) \/ FEq(a, b)
FGt(a, b) == FLt(b, a)
FGe(a, b) == FLe(b, a)

\* The signed sum S * 2^e of two aligned operands, the first of sign neg.
AddSig(neg, S, e, sticky) ==
  RoundF(neg # (S < 0), IF S < 0 THEN 0 - S ELSE S, e, sticky /\ S >= 0)

\* a + b for finite nonzero a, b with a.e >= b.e: three guard bits and a
\* sticky bit for what b loses in the alignment.
AddAligned(a, b) ==
  LET d == a.e - b.e
      A == a.m * 8
      B == (b.m * 8) \div 2^d
      sticky == (b.m * 8) % 2^d # 0
  IN  IF d >= 27 THEN a
      ELSE AddSig(a.neg,
                  IF a.neg = b.neg THEN A + B
                  ELSE IF sticky THEN A - B - 1 ELSE A - B,
                  a.e - 3, sticky)

FAdd(a, b) ==
  CASE a.cls = "nan" \/ b.cls = "nan" -> NaN
    [] a.cls = "inf" -> IF b.cls = "inf" /\ a.neg # b.neg THEN NaN ELSE a
    [] b.cls = "inf" -> b
    [] a.m = 0 -> b
    [] b.m = 0 -> a
    [] OTHER -> AddAligned(IF a.e >= b.e THEN a ELSE b, IF a.e >= b.e THEN b ELSE a)

FSub(a, b) == FAdd(a, FNeg(b))

Half12 == 4096

\* (H0 * 2^24 + low) * 2^(e - 2) rounded, low < 2^25.
MulRound(neg, e, H0, low) ==
  RoundF(neg, (H0 + low \div MantMax) * 4 + (low % MantMax) \div 4194304, e,
         (low % MantMax) % 4194304 # 0)

\* The 48-bit product from the products of the 12-bit halves.
MulSum(neg, e, hi, mid, lo) ==
  MulRound(neg, e, hi + mid \div Half12, (mid % Half12) * Half12 + lo)

FMul(a, b) ==
  CASE a.cls = "nan" \/ b.cls = "nan" -> NaN
    [] a.cls = "inf" \/ b.cls = "inf" ->
         IF IsZero(a) \/ IsZero(b) THEN NaN
         ELSE IF a.neg # b.neg THEN NegInf ELSE Inf
    [] a.m = 0 \/ b.m = 0 -> Zero
    [] OTHER ->
         MulSum(a.neg # b.neg, a.e + b.e + 22,
                (a.m \div Half12) * (b.m \div Half12),
                (a.m \div Half12) * (b.m % Half12) + (a.m % Half12) * (b.m \div Half12),
                (a.m % Half12) * (b.m % Half12))

\* Long division: the quotient and remainder qr taken k more places.
DivStep(qr, bm, k) == << qr[1] * k + (qr[2] * k) \div bm, (qr[2] * k) % bm >>

DivRound(neg, e, qr) == RoundF(neg, qr[1], e, qr[2] # 0)

\* a / b for b nonzero: 26 quotient bits and a sticky remainder.
FDiv(a, b) ==
  CASE a.cls = "nan" \/ b.cls = "nan" -> NaN
    [] a.cls = "inf" -> IF b.cls = "inf" THEN NaN
                        ELSE IF a.neg # b.neg THEN NegInf ELSE Inf
    [] b.cls = "inf" \/ a.m = 0 -> Zero
    [] OTHER ->
         DivRound(a.neg # b.neg, a.e - b.e - 26,
                  DivStep(DivStep(DivStep(DivStep(DivStep(
                    << a.m \div b.m, a.m % b.m >>, b.m, 64), b.m, 64), b.m, 64),
                    b.m, 64), b.m, 4))

\* a.clamp(lo, hi)
FClamp(a, lo, hi) == IF FLt(a, lo) THEN lo ELSE IF FGt(a, hi) THEN hi ELSE a

FMax(a, b) == IF FLt(a, b) THEN b ELSE a

\* a.round(): to the nearest integer, halves away from zero.
FRound(a) ==
  IF a.cls # "fin" \/ a.m = 0 \/ a.e >= 0 THEN a
  ELSE IF 0 - a.e > MantBits THEN Zero
  ELSE RoundF(a.neg,
              a.m \div 2^(0 - a.e)
                + (IF 2 * (a.m % 2^(0 - a.e)) >= 2^(0 - a.e) THEN 1 ELSE 0),
              0, FALSE)

\* Stand-in for every usize above the table sizes (usize::MAX included).
UsizeHuge == 1073741824

\* a as usize: truncates, saturates, NaN gives 0.
AsUsize(a) ==
  CASE a.cls = "nan" -> 0
    [] a.cls = "inf" -> IF a.neg THEN 0 ELSE UsizeHuge
    [] a.neg \/ a.m = 0 -> 0
    [] a.e >= 0 -> IF a.e > 6 THEN UsizeHuge ELSE a.m * 2^a.e
    [] OTHER -> IF 0 - a.e >= MantBits THEN 0 ELSE a.m \div 2^(0 - a.e)

\* a as u8
AsU8(a) == Min(AsUsize(a), 255)

---------------------------------------------------------------------------
(* fits.rs: the stretch curves and the compositor                          *)

LUT_SIZE == 4096
BINS == 4096

One == F32(1)
Two == F32(2)
F255 == F32(255)
F05 == Fin(FALSE, 8388608, -24)
\* 0.10, 1e-6 and 1e-9 as f32 literals
TARGET_BG == Fin(FALSE, 13421773, -27)
Eps6 == Fin(FALSE, 8796093, -43)
Eps9 == Fin(FALSE, 9007199, -53)
F32_MAX == Fin(FALSE, 16777215, 104)
F32_MIN == Fin(TRUE, 16777215, 104)
\* 0.0002 and 0.9998 as fractions
LOW_PCTILE == << 2, 10000 >>
HIGH_PCTILE == << 9998, 10000 >>

\* The indices of the samples the loops of the statistics keep.
FiniteIdx(data) == { k \in DOMAIN data : is_finite(data[k]) }

\* The finite values of the plane and how many samples have each.
Values(data) == { data[k] : k \in FiniteIdx(data) }
Mult(data, v) == Cardinality({ k \in DOMAIN data : data[k] = v })

\* The least and the greatest of a nonempty set of finite values.
Least(S) == CHOOSE v \in S : \A w \in S : ~FLt(w, v)
Greatest(S) == CHOOSE v \in S : \A w \in S : ~FLt(v, w)

\* Line 542: (0.0, 1.0) when the fold kept no sample.
MinMaxOr(min, max) == IF FGt(min, max) THEN << Zero, One >> ELSE << min, max >>

\* data_min_max without the is_finite filter of its loop.
AllMinMax(data) ==
  MinMaxOr(Least({ data[k] : k \in DOMAIN data } \cup { F32_MAX }),
           Greatest({ data[k] : k \in DOMAIN data } \cup { F32_MIN }))

\* data_min_max(data): the fold from (f32::MAX, f32::MIN) over the finite
\* samples.
data_min_max(data) ==
  MinMaxOr(Least(Values(data) \cup { F32_MAX }), Greatest(Values(data) \cup { F32_MIN }))

\* linear_lut(_min, _max)
linear_lut(min, max) ==
  [ i \in 0..(LUT_SIZE - 1) |->
      AsU8(FRound(FMul(FDiv(F32(i), F32(LUT_SIZE - 1)), F255))) ]

\* The histogram bin of the sample v (lines 427-428 and 484-485).
HistBin(v, min, range) ==
  Min(AsUsize(FMul(FClamp(FDiv(FSub(v, min), range), Zero, One), F32(BINS - 1))),
      BINS - 1)

\* ((count as f64 * pctile).ceil() as u64).min(count); up to 200000 samples
\* the f64 product has the ceiling of the exact one.
PctileTarget(count, pctile) ==
  Min((count * pctile[1] + pctile[2] - 1) \div pctile[2], count)

\* The number of samples with a value in S.
RECURSIVE CountOf(_, _)
CountOf(data, S) ==
  IF S = {} THEN 0
  ELSE LET v == CHOOSE w \in S : TRUE
       IN  Mult(data, v) + CountOf(data, S \ { v })

\* The running sum of the histogram up to bin i; bin[v] is the bin of value v.
CumSum(data, bin, i) == CountOf(data, { v \in DOMAIN bin : bin[v] <= i })

\* The first bin at which the running sum reaches target >= 1.
FirstBin(data, bin, target) ==
  CHOOSE i \in { bin[v] : v \in DOMAIN bin } :
    /\ CumSum(data, bin, i) >= target
    /\ \A j \in { bin[v] : v \in DOMAIN bin } :
         j < i => CumSum(data, bin, j) < target

\* The loops of lines 425-443 and 482-505 over the finite samples.
FirstBinReaching(data, min, range, target) ==
  FirstBin(data, [ v \in Values(data) |-> HistBin(v, min, range) ], target)

\* percentile_norm past the subtraction of line 419.
PercentileIn(data, min, range, count, pctile) ==
  IF FEq(range, Zero) THEN One
  ELSE IF count = 0 THEN One
  ELSE FDiv(F32(FirstBinReaching(data, min, range, PctileTarget(count, pctile))),
            F32(BINS - 1))

\* percentile_norm(data, min, max, pctile)
percentile_norm(data, min, max, pctile) ==
  PercentileIn(data, min, FSub(max, min), Cardinality(FiniteIdx(data)), pctile)

\* Lines 462-467 of mtf.
MtfRatio(num, den) ==
  IF FLt(FAbs(den), Eps9) THEN F05 ELSE FClamp(FDiv(num, den), Zero, One)

\* mtf(x, m) without the early returns on x.
MtfNoClip(x, m) ==
  CASE FLe(m, Zero) -> Zero
    [] FGe(m, One) -> One
    [] OTHER -> MtfRatio(FMul(FSub(m, One), x),
                         FSub(FMul(FSub(FMul(Two, m), One), x), m))

\* mtf(x, m)
mtf(x, m) ==
  CASE FLe(x, Zero) -> Zero
    [] FGe(x, One) -> One
    [] FLe(m, Zero) -> Zero
    [] FGe(m, One) -> One
    [] OTHER -> MtfRatio(FMul(FSub(m, One), x),
                         FSub(FMul(FSub(FMul(Two, m), One), x), m))

\* median_mad_hist past the subtraction of line 474.
MedianIn(data, min, range, count) ==
  IF FEq(range, Zero) THEN F05
  ELSE IF count = 0 THEN F05
  ELSE FDiv(F32(FirstBinReaching(data, min, range, (count + 1) \div 2)),
            F32(BINS - 1))

\* median_mad_hist(data, min, max).0: the median; autostretch_lut drops the
\* MAD (line 377), which nothing else reads.
median_mad_hist(data, min, max) ==
  MedianIn(data, min, FSub(max, min), Cardinality(FiniteIdx(data)))

\* Lines 386-390.
MidtoneOf(x_bg, t, denom) ==
  IF FGt(FAbs(denom), Eps9)
    THEN FClamp(FDiv(FMul(x_bg, FSub(t, One)), denom), Zero, One)
    ELSE t

\* The midtone that puts the background at one half: mtf(m, m) = 0.5.
MidtoneAtHalf(x_bg) == x_bg

\* The midtone of lines 384-390 for the background x_bg.
Midtone(x_bg) ==
  MidtoneOf(x_bg, TARGET_BG,
            FSub(FSub(FMul(FMul(Two, x_bg), TARGET_BG), TARGET_BG), x_bg))

\* The background of lines 374-379: the median between the clip points, as
\* a fraction of the ceiling.
Background(data, bd, lo_bd, hi_bd) ==
  LET eff_min == FMul(lo_bd, bd)
      eff_max == FMul(hi_bd, bd)
      median_frac == median_mad_hist(data, eff_min, eff_max)
      eff_span == FDiv(FSub(eff_max, eff_min), bd)
  IN  FClamp(FAdd(lo_bd, FMul(median_frac, eff_span)), Eps6, FSub(One, Eps6))

\* What autostretch_lut works out before it builds the table (lines
\* 355-390): flat for the three early returns, else the clip points, the
\* background and the midtone.
Flat == [ flat |-> TRUE, data_min |-> Zero, range |-> Zero, bd |-> Zero,
          lo_bd |-> Zero, hi_bd |-> Zero, x_bg |-> Zero, m |-> Zero ]

Curve(data_min, range, bd, lo_bd, hi_bd, x_bg) ==
  [ flat |-> FALSE, data_min |-> data_min, range |-> range, bd |-> bd,
    lo_bd |-> lo_bd, hi_bd |-> hi_bd, x_bg |-> x_bg, m |-> Midtone(x_bg) ]

\* CurveClipped without the early return of lines 370-372.
CurveUnchecked(data, data_min, range, bd, lo_bd, hi_bd) ==
  Curve(data_min, range, bd, lo_bd, hi_bd, Background(data, bd, lo_bd, hi_bd))

\* Lines 370-390.
CurveClipped(data, data_min, range, bd, lo_bd, hi_bd) ==
  IF FLe(hi_bd, lo_bd) THEN Flat
  ELSE Curve(data_min, range, bd, lo_bd, hi_bd, Background(data, bd, lo_bd, hi_bd))

\* Lines 356-368.
CurveIn(data, data_min, range, bd) ==
  IF FEq(range, Zero) THEN Flat
  ELSE IF FEq(bd, Zero) THEN Flat
  ELSE CurveClipped(data, data_min, range, bd,
                    percentile_norm(data, Zero, bd, LOW_PCTILE),
                    percentile_norm(data, Zero, bd, HIGH_PCTILE))

AutoCurve(data, data_min, data_max, bitdepth_max) ==
  CurveIn(data, data_min, FSub(data_max, data_min),
          IF FGt(bitdepth_max, Zero) THEN bitdepth_max ELSE data_max)

\* EntryX with the ramp of line 396 running down from the top of the table.
EntryXDown(c, i) ==
  FClamp(FDiv(FAdd(c.data_min,
                   FMul(FDiv(F32(LUT_SIZE - 1 - i), F32(LUT_SIZE - 1)), c.range)),
              c.bd),
         Zero, One)

\* The normalised value of table entry i (lines 396-398).
EntryX(c, i) ==
  FClamp(FDiv(FAdd(c.data_min, FMul(FDiv(F32(i), F32(LUT_SIZE - 1)), c.range)),
              c.bd),
         Zero, One)

\* Lines 400-410 without the clip to the percentiles.
EntryOfNoClip(c, x) ==
  IF c.flat THEN 128
  ELSE AsU8(FClamp(FRound(FMul(mtf(x, c.m), F255)), Zero, F255))

\* Lines 400-410: the byte of the normalised value x.
EntryOf(c, x) ==
  IF c.flat THEN 128
  ELSE IF FLe(x, c.lo_bd) THEN 0
  ELSE IF FGe(x, c.hi_bd) THEN 255
  ELSE AsU8(FClamp(FRound(FMul(mtf(x, c.m), F255)), Zero, F255))

\* Table entry i of lines 394-412.
AutoEntry(c, i) == EntryOf(c, EntryX(c, i))

\* The table of the curve c.
AutoTable(c) == [ i \in 0..(LUT_SIZE - 1) |-> AutoEntry(c, i) ]

\* autostretch_lut(data, data_min, data_max, bitdepth_max)
autostretch_lut(data, data_min, data_max, bitdepth_max) ==
  AutoTable(AutoCurve(data, data_min, data_max, bitdepth_max))

\* The table to_rgba_gray and to_rgba_rgb pick (lines 262-265, 285-302).
LutFor(plane, stretch, min, max, bitdepth_max) ==
  IF stretch = "Linear" THEN linear_lut(min, max)
  ELSE autostretch_lut(plane, min, max, bitdepth_max)

\* The scale of lines 267 and 305-307.
Scale(min, max) ==
  IF FEq(max, min) THEN Zero ELSE FDiv(F32(LUT_SIZE - 1), FSub(max, min))

\* The table index of the sample v (lines 270 and 312-314).
LutIndex(v, min, scale) ==
  Min(AsUsize(FAdd(FMul(FSub(v, min), scale), F05)), LUT_SIZE - 1)

\* Three bytes a pixel, no alpha.
InterleaveRgb(r, g, b) ==
  [ k \in 1..(3 * Len(r)) |->
      CASE k % 3 = 1 -> r[(k + 2) \div 3]
        [] k % 3 = 2 -> g[(k + 1) \div 3]
        [] OTHER -> b[k \div 3] ]

\* The out buffer of lines 269-275 and 310-319: four bytes a pixel, the three
\* channel bytes and 255.
Interleave(r, g, b) ==
  [ k \in 1..(4 * Len(r)) |->
      CASE k % 4 = 1 -> r[(k + 3) \div 4]
        [] k % 4 = 2 -> g[(k + 2) \div 4]
        [] k % 4 = 3 -> b[(k + 1) \div 4]
        [] OTHER -> 255 ]

\* The bytes the samples get through the table lut.
Through(plane, min, scale, lut) ==
  [ i \in DOMAIN plane |-> lut[LutIndex(plane[i], min, scale)] ]

\* The bytes of a plane whose data_min_max is mm.
StretchedBy(plane, stretch, bitdepth_max, mm) ==
  Through(plane, mm[1], Scale(mm[1], mm[2]),
          LutFor(plane, stretch, mm[1], mm[2], bitdepth_max))

\* The bytes a plane gets through its own table.
Stretched(plane, stretch, bitdepth_max) ==
  StretchedBy(plane, stretch, bitdepth_max, data_min_max(plane))

\* The gray of the three channels of a pixel.
Gray(g) == Interleave(g, g, g)

\* to_rgba_gray(plane, stretch, bitdepth_max)
to_rgba_gray(plane, stretch, bitdepth_max) ==
  Gray(Stretched(plane, stretch, bitdepth_max))

\* The three channels stretched over the min and max of all three planes.
RgbLinked(r, g, b, stretch, bitdepth_max) ==
  Interleave(StretchedBy(r, stretch, bitdepth_max, data_min_max(r \o g \o b)),
             StretchedBy(g, stretch, bitdepth_max, data_min_max(r \o g \o b)),
             StretchedBy(b, stretch, bitdepth_max, data_min_max(r \o g \o b)))

\* to_rgba_rgb(r, g, b, stretch, bitdepth_max); r[i], g[i] and b[i] of
\* lines 312-314 panic past the end of a shorter plane.
to_rgba_rgb(r, g, b, stretch, bitdepth_max) ==
  IF Len(g) < Len(r) \/ Len(b) < Len(r) THEN Panic
  ELSE Interleave(Stretched(r, stretch, bitdepth_max),
                  SubSeq(Stretched(g, stretch, bitdepth_max), 1, Len(r)),
                  SubSeq(Stretched(b, stretch, bitdepth_max), 1, Len(r)))

---------------------------------------------------------------------------
(* State                                                                   *)

VARIABLES
  \* read_headers: its arguments and its running state
  fits_path, hdu_idx, rd,
  \* detect_bayer_pattern: what the header says, the header list, the result
  hdr_src, headers, bayer_cfa,
  \* FitsImage::load and to_rgba: the path, the Result of load, the stretch and
  \* view asked for, the result of to_rgba
  path, loaded, view_req, rgba,
  \* the viewer: the FastFitsApp value and the files that exist in the directory
  app, disk,
  \* mtf: its arguments and its result
  mtf_x, mtf_m, mtf_y,
  \* a stretch curve: the plane, the bit-depth ceiling and the stretch mode it
  \* is built for, the result of data_min_max, what autostretch_lut works out
  \* before its table, the table, the out buffer of to_rgba_gray
  cv_plane, cv_bd, cv_stretch, cv_min_max, cv_curve, cv_lut, cv_out,
  \* a to_rgba call: the image, the stretch and view asked for, the stretch
  \* call it ends in, the buffer returned
  rn_img, rn_req, rn_call, rn_out,
  \* to_rgba_rgb with its scoped threads: the arguments, the position of the
  \* calling thread, the min and max of the planes, the worker threads, the
  \* tables joined so far, the buffer returned
  wk_args, wk_pc, wk_min_max, wk, wk_luts, wk_out

rdVars == << fits_path, hdu_idx, rd >>
bayerVars == << hdr_src, headers, bayer_cfa >>
loadVars == << path, loaded, view_req, rgba >>
appVars == << app, disk >>
mtfVars == << mtf_x, mtf_m, mtf_y >>
curveVars == << cv_plane, cv_bd, cv_stretch, cv_min_max, cv_curve, cv_lut, cv_out >>
renderVars == << rn_img, rn_req, rn_call, rn_out >>
workerVars == << wk_args, wk_pc, wk_min_max, wk, wk_luts, wk_out >>
stretchVars == << mtfVars, curveVars, renderVars, workerVars >>
vars == << rdVars, bayerVars, loadVars, appVars, stretchVars >>

\* The values a component keeps while another one is being run.
RdIdle == fits_path = MissingFile /\ hdu_idx = 0 /\ rd = RdStart
BayerIdle == hdr_src = NoBayer /\ headers = << >> /\ bayer_cfa = None
LoadIdle == path = MissingFile /\ loaded = None /\ view_req = None /\ rgba = None
AppIdle == app = None /\ disk = EmptyDisk
MtfIdle == mtf_x = Zero /\ mtf_m = Zero /\ mtf_y = None
CurveIdle ==
  /\ cv_plane = << >> /\ cv_bd = Zero /\ cv_stretch = "Linear"
  /\ cv_min_max = None /\ cv_curve = None /\ cv_lut = None /\ cv_out = None
RenderIdle == rn_img = None /\ rn_req = None /\ rn_call = None /\ rn_out = None
WorkersIdle ==
  /\ wk_args = None /\ wk_pc = "idle" /\ wk_min_max = None
  /\ wk = << >> /\ wk_luts = << >> /\ wk_out = None
StretchIdle == MtfIdle /\ CurveIdle /\ RenderIdle /\ WorkersIdle

---------------------------------------------------------------------------
(* Specification of the header reader: read_headers(fits_path, hdu_idx)    *)
(* run step by step on every file of HeaderPaths.                          *)

InitHeaders ==
  /\ fits_path \in HeaderPaths
  /\ hdu_idx \in 0..MaxHduIdx
  /\ rd = RdStart
  /\ BayerIdle /\ LoadIdle /\ AppIdle /\ StretchIdle

Open ==
  /\ rd.pc = "open"
  /\ rd' = RdOpen(fits_path, rd)
  /\ UNCHANGED << fits_path, hdu_idx, bayerVars, loadVars, appVars, stretchVars >>

ReadBlock ==
  /\ rd.pc = "read_block"
  /\ rd' = RdReadBlock(fits_path, rd)
  /\ UNCHANGED << fits_path, hdu_idx, bayerVars, loadVars, appVars, stretchVars >>

ReturnHeaders ==
  /\ rd.pc = "found_end"
  /\ rd.hdus_seen = hdu_idx
  /\ rd' = RdReturn(rd)
  /\ UNCHANGED << fits_path, hdu_idx, bayerVars, loadVars, appVars, stretchVars >>

SkipData ==
  /\ rd.pc = "found_end"
  /\ rd.hdus_seen # hdu_idx
  /\ rd' = RdSkipData(rd)
  /\ UNCHANGED << fits_path, hdu_idx, bayerVars, loadVars, appVars, stretchVars >>

NextHeaders == Open \/ ReadBlock \/ ReturnHeaders \/ SkipData

SpecHeaders == InitHeaders /\ [][NextHeaders]_vars

---------------------------------------------------------------------------
(* Specification of the Bayer detector: detect_bayer_pattern applied to    *)
(* the header list of every record of BayerSources.                        *)

InitBayer ==
  /\ hdr_src \in BayerSources
  /\ headers = HeadersOf(hdr_src)
  /\ bayer_cfa = None
  /\ RdIdle /\ LoadIdle /\ AppIdle /\ StretchIdle

Detect ==
  /\ bayer_cfa = None
  /\ bayer_cfa' = Some(detect_bayer_pattern(headers))
  /\ UNCHANGED << hdr_src, headers, rdVars, loadVars, appVars, stretchVars >>

NextBayer == Detect

SpecBayer == InitBayer /\ [][NextBayer]_vars

---------------------------------------------------------------------------
(* Specification of the loader: FitsImage::load on every file of           *)
(* LoadPaths, then to_rgba on the image with every stretch and view.       *)

InitLoad ==
  /\ path \in LoadPaths
  /\ loaded = None /\ view_req = None /\ rgba = None
  /\ RdIdle /\ BayerIdle /\ AppIdle /\ StretchIdle

DoLoad ==
  /\ loaded = None
  /\ loaded' = Some(Load(path))
  /\ UNCHANGED << path, view_req, rgba, rdVars, bayerVars, appVars, stretchVars >>

ToRgba ==
  /\ loaded # None /\ Unwrap(loaded).ok /\ rgba = None
  /\ \E stretch \in Stretches, view \in Views :
       /\ view_req' = Some([ stretch |-> stretch, view |-> view ])
       /\ rgba' = Some(to_rgba(Unwrap(loaded).val, stretch, view))
  /\ UNCHANGED << path, loaded, rdVars, bayerVars, appVars, stretchVars >>

NextLoad == DoLoad \/ ToRgba

SpecLoad == InitLoad /\ [][NextLoad]_vars

---------------------------------------------------------------------------
(* Specification of the viewer: the frames of update, one event each, and  *)
(* the loader thread, from every way of starting the application.          *)

ModeNames == { "Bilinear", "Cubic" }
AllFiles == [ i \in AppPaths |-> i ]

Init ==
  /\ \/ /\ disk = FullDisk
        /\ \E start \in Optional(0..(NumFiles - 1)) : app = new(AllFiles, start, disk)
     \/ /\ disk = EmptyDisk
        /\ app = new(<< >>, None, disk)
  /\ RdIdle /\ BayerIdle /\ LoadIdle /\ StretchIdle

\* One frame of update with the event ev.
EndOfFrame(frame) ==
  /\ frame.on_screen
  /\ app' = frame.app
  /\ disk' = frame.disk
  /\ UNCHANGED << rdVars, bayerVars, loadVars, stretchVars >>

Update(ev) == EndOfFrame(Frame(app, disk, ev))

\* The loader thread of the live receiver, line 151: FitsImage::load on the
\* file as the disk is now.
LoaderLoad ==
  /\ app.load_rx # None
  /\ Unwrap(app.load_rx).result = None
  /\ app' = [ app EXCEPT !.load_rx =
                Some([ Unwrap(app.load_rx) EXCEPT
                         !.result = Some(Decode(disk, Unwrap(app.load_rx).file)) ]) ]
  /\ UNCHANGED << disk, rdVars, bayerVars, loadVars, stretchVars >>

\* The loader thread of the live receiver, line 155: tx.send(result).
LoaderSend ==
  /\ app.load_rx # None
  /\ Unwrap(app.load_rx).result # None
  /\ Unwrap(app.load_rx).msg = None
  /\ app' = [ app EXCEPT !.load_rx =
                Some([ Unwrap(app.load_rx) EXCEPT !.msg = Unwrap(app.load_rx).result ]) ]
  /\ UNCHANGED << disk, rdVars, bayerVars, loadVars, stretchVars >>

\* A frame with no input (a repaint, which the loader thread also asks for).
Repaint ==
  /\ Update(NoEvent)

\* The keys: Right/Down, Left/Up, S, Delete, comma, Escape.
KeyNext ==
  /\ Update(Event("go_next", 0))

KeyPrev ==
  /\ Update(Event("go_prev", 0))

KeyStretch ==
  /\ Update(Event("toggle_stretch", 0))

KeyDelete ==
  \E removed \in BOOLEAN :
    /\ Update(Event("do_delete", removed))

KeyPrefs ==
  /\ Update(Event("toggle_prefs", 0))

KeyEscape ==
  /\ Update(Event("close_popup", 0))

\* The Preferences dialog: a demosaic algorithm, Close.
PrefsMode ==
  \E mode \in ModeNames :
    /\ Update(Event("prefs_mode", mode))

PrefsClose ==
  /\ Update(Event("prefs_close", 0))

\* The toolbar: the x of the delete status, Prev, Next, Delete.
ClickStatusX ==
  /\ Update(Event("status_x", 0))

ClickPrev ==
  /\ Update(Event("prev_btn", 0))

ClickNext ==
  /\ Update(Event("next_btn", 0))

ClickDelete ==
  \E removed \in BOOLEAN :
    /\ Update(Event("del_btn", removed))

\* The menu bar: Prefs, the stretch label, a channel label, RGB.
ClickPrefs ==
  /\ Update(Event("menu_prefs", 0))

ClickStretch ==
  /\ Update(Event("menu_stretch", 0))

ClickChannel ==
  \E ch \in 0..MaxChannel :
    /\ Update(Event("menu_channel", ch))

ClickRgb ==
  /\ Update(Event("menu_rgb", 0))

\* The file browser: the label of a file.
ClickFile ==
  \E i \in 0..(NumFiles - 1) :
    /\ Update(Event("browser", i))

Next ==
  \/ LoaderLoad \/ LoaderSend \/ Repaint
  \/ KeyNext \/ KeyPrev \/ KeyStretch \/ KeyDelete \/ KeyPrefs \/ KeyEscape
  \/ PrefsMode \/ PrefsClose
  \/ ClickStatusX \/ ClickPrev \/ ClickNext \/ ClickDelete
  \/ ClickPrefs \/ ClickStretch \/ ClickChannel \/ ClickRgb \/ ClickFile

Spec == Init /\ [][Next]_vars

---------------------------------------------------------------------------
(* Claims on the header reader                                             *)

RdDone == rd.pc = "done"
RdResult == Unwrap(rd.result)

\* The HDU the call asks for, when the file has it.
HasTarget == fits_path.exists /\ hdu_idx < Len(fits_path.hdus)
Target == fits_path.hdus[hdu_idx + 1]

\* The key of a card text as the format defines it: its first 8 bytes, trimmed.
KeyOfText(t) == Trim(SubSeq(t \o Spaces(CardLen), 1, KeyLen))

\* The keys of the cards that carry a key/value pair, in file order.
RECURSIVE QualifyingKeys(_, _)
QualifyingKeys(cards, i) ==
  IF i > Len(cards) THEN << >>
  ELSE (IF IsStructuralKey(KeyOfText(cards[i])) THEN << >> ELSE << KeyOfText(cards[i]) >>)
         \o QualifyingKeys(cards, i + 1)

KeysOf(pairs) == [ i \in 1..Len(pairs) |-> pairs[i][1] ]
Count(q, x) == Cardinality({ i \in 1..Len(q) : q[i] = x })
SameBag(q, r) == Len(q) = Len(r) /\ \A i \in 1..Len(q) : Count(q, q[i]) = Count(r, q[i])
NoDuplicates(q) == \A i, j \in 1..Len(q) : q[i] = q[j] => i = j
SortedAscending(q) == \A i, j \in 1..Len(q) : i < j => StrLeq(q[i], q[j])

\* C3: when read_headers returns the headers of a target HDU (nothing follows its
\* END card), the result has exactly one pair per card whose key is non-empty and
\* not COMMENT, HISTORY, END or CONTINUE, it is ordered by key ascending, and its
\* keys are unique when the keys of the input cards are.
C3_OnePairPerCardSorted ==
  (RdDone /\ RdResult.ok /\ HasTarget /\ Target.tail = << >>) =>
    LET keys == KeysOf(RdResult.val)
        want == QualifyingKeys(Target.cards, 1)
    IN  /\ SameBag(keys, want)
        /\ SortedAscending(keys)
        /\ (NoDuplicates(want) => NoDuplicates(keys))

\* The block of its header (counted from 1) that holds the END card of an HDU.
EndBlockOf(h) == (Len(h.cards) + h.fill + 1 + CardsPerBlock - 1) \div CardsPerBlock

\* The file holds, whole, every header block up to the END card of the target HDU.
Readable ==
  /\ HasTarget
  /\ \A j \in 1..(hdu_idx + 1) : fits_path.hdus[j].hasEnd
  /\ (BlocksOfHdus(fits_path.hdus, hdu_idx) + EndBlockOf(Target)) * BlockLen
       <= FileLen(fits_path)

\* A header on the way to the target has no END card (and the file is not cut).
NeverReachesEnd ==
  /\ fits_path.exists /\ fits_path.cut = 0
  /\ \E j \in 1..Min(hdu_idx + 1, Len(fits_path.hdus)) : ~fits_path.hdus[j].hasEnd

C4_Outcome ==
  RdDone =>
    /\ RdResult.ok <=> Readable
    /\ ~fits_path.exists => RdResult = Err(OpenError)
    /\ (fits_path.exists /\ ~Readable) => RdResult = Err(ReadError)
    /\ NeverReachesEnd => RdResult = Err(ReadError)
    /\ ~RdResult.ok => DOMAIN RdResult = { "ok", "err" }

\* The whole blocks left between the reader's position and the end of the file.
BlocksLeft == Max(0, FileLen(fits_path) - rd.pos) \div BlockLen

\* A bound on the steps left: every step of read_headers lowers it.
StepsLeft ==
  CASE rd.pc = "done" -> 0
    [] rd.pc = "read_block" -> 2 * BlocksLeft + 1
    [] rd.pc = "found_end" -> 2 * BlocksLeft + 2
    [] OTHER -> 2 * BlocksLeft + 3

---------------------------------------------------------------------------
(* Claims on the loader                                                    *)

Loaded == loaded # None
LoadResult == Unwrap(loaded)

\* An image HDU whose shape is not empty and has no axis of length 0.
NonDegenerate(h) ==
  /\ h.info[1] = "image"
  /\ h.info[2] # << >>
  /\ \A i \in 1..Len(h.info[2]) : h.info[2][i] > 0

\* The lowest position (from 1) of a non-degenerate HDU of path, or 0.
FirstNonDegenerate ==
  LET at == { i \in 1..Len(path.hdus) : NonDegenerate(path.hdus[i]) }
  IN  IF at = {} THEN 0 ELSE CHOOSE i \in at : \A j \in at : i <= j

SelectedHdu == path.hdus[FirstNonDegenerate]
SelectedShape == SelectedHdu.info[2]
PlaneCount == IF Len(SelectedShape) = 3 THEN SelectedShape[3] ELSE 1

\* The image holds the values of an HDU, as stored or demosaiced.
DataFrom(img, h) ==
  \/ img.data = h.samples
  \/ /\ Len(img.data) = 3 * Len(h.samples)
     /\ \A k \in 1..Len(img.data) : \E i \in 1..Len(h.samples) : img.data[k] = h.samples[i]

\* C5: load reads the lowest-index non-degenerate HDU of the file (the image has
\* its first two axis lengths, its headers and its values), passing over every
\* earlier HDU; when the file has no such HDU, load fails with the not-found
\* error and gives no image.
C5_LowestNonDegenerateHdu ==
  (Loaded /\ path.exists) =>
    IF FirstNonDegenerate = 0
      THEN LoadResult = Err(NotFoundError)
      ELSE /\ LoadResult # Err(NotFoundError)
           /\ ~LoadResult.ok => Len(SelectedShape) \notin { 2, 3 }
           /\ LoadResult.ok =>
                /\ LoadResult.val.width = SelectedShape[1]
                /\ LoadResult.val.height = SelectedShape[2]
                /\ LoadResult.val.headers = ParseHeaders(HeaderBytes(SelectedHdu))
                /\ DataFrom(LoadResult.val, SelectedHdu)

\* Two HDUs were passed over and an image HDU follows the one that was read.
C5_Witness ==
  /\ Loaded /\ LoadResult.ok
  /\ FirstNonDegenerate = 3 /\ Len(path.hdus) = 4
  /\ NonDegenerate(path.hdus[4])
  /\ LoadResult.val.width = 2

\* A header list has a pair of that key whose value names one of the four patterns.
NamesPattern(hs, key) ==
  \E i \in 1..Len(hs) :
    /\ hs[i][1] = key
    /\ ToUpper(Trim(hs[i][2])) \in { V_RGGB, V_BGGR, V_GRBG, V_GBRG }

\* A header list has an INSTRUME value that contains COLOR, COLOUR or OSC.
MarksColour(hs) ==
  \E i \in 1..Len(hs) :
    /\ hs[i][1] = K_INSTRUME
    /\ \E w \in { V_COLOR, V_COLOUR, V_OSC } : Contains(ToUpper(hs[i][2]), w)

Recognised(hs) ==
  NamesPattern(hs, K_BAYERPAT) \/ NamesPattern(hs, K_COLORTYP) \/ MarksColour(hs)

\* No Bayer pattern is detected on the selected HDU: it has several planes, or
\* the headers read from it carry no recognised pattern.
NoPatternDetected ==
  \/ PlaneCount # 1
  \/ LoadResult.ok => ~Recognised(LoadResult.val.headers)

\* C6: on the selected HDU with no Bayer pattern detected, a shape [a,b] loads as
\* width a, height b, 1 channel and a shape [a,b,c] as width a, height b,
\* c channels; any other number of axes fails with the unsupported-format error.
C6_AxesToDimensions ==
  (Loaded /\ FirstNonDegenerate # 0) =>
    /\ (Len(SelectedShape) = 2 /\ NoPatternDetected) =>
         /\ LoadResult.ok
         /\ LoadResult.val.width = SelectedShape[1]
         /\ LoadResult.val.height = SelectedShape[2]
         /\ LoadResult.val.channels = 1
    /\ (Len(SelectedShape) = 3 /\ NoPatternDetected) =>
         /\ LoadResult.ok
         /\ LoadResult.val.width = SelectedShape[1]
         /\ LoadResult.val.height = SelectedShape[2]
         /\ LoadResult.val.channels = SelectedShape[3]
    /\ Len(SelectedShape) \notin { 2, 3 } => LoadResult = Err(UnsupportedError)

\* The example of the claim: [100,50,3] is loaded as 100 x 50 with 3 channels.
C6_Witness ==
  /\ Loaded /\ FirstNonDegenerate # 0
  /\ SelectedShape = << 100, 50, 3 >>
  /\ LoadResult.ok
  /\ LoadResult.val.width = 100 /\ LoadResult.val.height = 50
  /\ LoadResult.val.channels = 3

\* C7: every image that load returns has 1 or 3 channels.
C7_ChannelCountOneOrThree ==
  (Loaded /\ LoadResult.ok) => LoadResult.val.channels \in { 1, 3 }

\* C9: an image is demosaiced (its values are not the stored ones) only when the
\* plane count is 1 and its headers carry a recognised pattern; with a plane
\* count of 3 or more, or with one plane and no recognised BAYERPAT, COLORTYP or
\* INSTRUME, its values are the stored ones and its channel count is the plane
\* count.
C9_DemosaicOnlyForDetectedMosaic ==
  (Loaded /\ LoadResult.ok) =>
    LET img == LoadResult.val
    IN  /\ img.data # SelectedHdu.samples => (PlaneCount = 1 /\ Recognised(img.headers))
        /\ (PlaneCount >= 3 \/ (PlaneCount = 1 /\ ~Recognised(img.headers))) =>
             (img.data = SelectedHdu.samples /\ img.channels = PlaneCount)

\* A three-plane image whose header names a Bayer pattern is loaded as stored.
C9_Witness ==
  /\ Loaded /\ LoadResult.ok
  /\ PlaneCount = 3
  /\ NamesPattern(LoadResult.val.headers, K_BAYERPAT)
  /\ LoadResult.val.data = SelectedHdu.samples
  /\ LoadResult.val.channels = 3

Rendered == rgba # None
RgbaResult == Unwrap(rgba)
View == Unwrap(view_req).view

\* Plane c (from 0) of an image: its samples c * npix up to (c + 1) * npix.
PlaneOf(img, c) ==
  SubSeq(img.data, c * img.width * img.height + 1, (c + 1) * img.width * img.height)

\* The planes a to_rgba result was made from.
PlanesOf(r) == IF r.fn = "to_rgba_gray" THEN << r.plane >> ELSE << r.r, r.g, r.b >>

\* C10: to_rgba does not fail on any view; for Single(i) with i at or above the
\* channel count it renders the last plane; for an image of 1 channel it renders
\* plane 0 under every view; every plane it takes is one whole plane of the
\* samples.
C10_ChannelClampedSliceInside ==
  Rendered =>
    LET img == LoadResult.val
    IN  /\ RgbaResult # Panic
        /\ (View[1] = "Single" /\ View[2] >= img.channels) =>
             PlanesOf(RgbaResult) = << PlaneOf(img, img.channels - 1) >>
        /\ img.channels = 1 => PlanesOf(RgbaResult) = << PlaneOf(img, 0) >>
        /\ \A k \in 1..Len(PlanesOf(RgbaResult)) :
             \E c \in 0..(img.channels - 1) : PlanesOf(RgbaResult)[k] = PlaneOf(img, c)

\* Channel 4 was asked of an image of 3 channels: its plane 2 was rendered.
C10_Witness ==
  /\ Rendered
  /\ LoadResult.val.channels = 3
  /\ View = Single(4)
  /\ RgbaResult # Panic
  /\ PlanesOf(RgbaResult) = << PlaneOf(LoadResult.val, 2) >>

---------------------------------------------------------------------------
(* Claims on the Bayer detector                                            *)

Detected == bayer_cfa # None
DetectResult == Unwrap(bayer_cfa)

\* The pattern a header value names, or None (also when the key is absent).
Named(v) == IF v = None THEN None ELSE Unwrap(v).names

\* C8: the result is the pattern BAYERPAT names, whatever COLORTYP and INSTRUME
\* say; else the pattern COLORTYP names, whatever INSTRUME says; else RGGB when
\* INSTRUME contains COLOR, COLOUR or OSC; else None; values are compared
\* without regard to case.
C8_RulesInOrder ==
  Detected =>
    LET bp == Named(hdr_src.bayerpat)
        ct == Named(hdr_src.colortyp)
        colour == Named(hdr_src.instrume) # None
    IN  /\ bp # None => DetectResult = bp
        /\ (bp = None /\ ct # None) => DetectResult = ct
        /\ (bp = None /\ ct = None /\ colour) => DetectResult = Some("RGGB")
        /\ (bp = None /\ ct = None /\ ~colour) => DetectResult = None

\* A lower-case BAYERPAT wins over a COLORTYP that names another pattern and
\* over a colour INSTRUME.
C8_Witness ==
  /\ Detected
  /\ hdr_src.bayerpat # None /\ Unwrap(hdr_src.bayerpat).text = << "b", "g", "g", "r" >>
  /\ Named(hdr_src.colortyp) = Some("GRBG")
  /\ Named(hdr_src.instrume) # None
  /\ DetectResult = Some("BGGR")

---------------------------------------------------------------------------
(* Claims on the viewer                                                    *)

\* The file the selection points at, or 0.
SelectedFile ==
  IF app.selected # None /\ Unwrap(app.selected) < Len(app.files)
    THEN app.files[Unwrap(app.selected) + 1] ELSE 0

\* C1: whenever the application holds an image or a load error, it is the
\* decode result of the currently selected file; a result of a file that is no
\* longer the selected one is never applied.
C1_ImageIsOfSelectedFile ==
  /\ app.image # None =>
       (SelectedFile # 0 /\ Decode(disk, SelectedFile) = Ok(Unwrap(app.image)))
  /\ app.load_error # None =>
       (SelectedFile # 0 /\ Decode(disk, SelectedFile) = Err(Unwrap(app.load_error)))

\* C2: at the end of every frame a texture that is present was built from the
\* current image with the current stretch and the current channel view.
C2_TextureIsOfCurrentView ==
  app.texture # None =>
    /\ app.image # None
    /\ app.texture = Some(to_rgba(Unwrap(app.image), app.stretch, app.channel_view))

---------------------------------------------------------------------------
(* Specification of mtf: mtf(mtf_x, mtf_m) on every pair of MtfXs and      *)
(* MtfMs.                                                                  *)

\* f32 literals: 0.01, 0.1, 0.25, 0.75, 0.9, 0.99, 0.999, 0.9999, -0.5
F001 == Fin(FALSE, 10737418, -30)
F01 == Fin(FALSE, 13421773, -27)
F025 == Fin(FALSE, 8388608, -25)
F075 == Fin(FALSE, 12582912, -24)
F09 == Fin(FALSE, 15099494, -24)
F099 == Fin(FALSE, 16609444, -24)
F0999 == Fin(FALSE, 16760439, -24)
F09999 == Fin(FALSE, 16775538, -24)
FNegHalf == Fin(TRUE, 8388608, -24)

\* The midtones the fixed points are stated for, the other ones inside
\* (0, 1), and the degenerate ones.
ListedMs == { F001, F01, F05, F09, F099 }
InnerMs == ListedMs \cup { Eps6, F025, F075, F0999, F09999 }
MtfMs == InnerMs \cup { FNegHalf, Zero, One, Two }
MtfXs == MtfMs \cup { FSub(One, Eps6) }

InitMtf ==
  /\ mtf_x \in MtfXs
  /\ mtf_m \in MtfMs
  /\ mtf_y = None
  /\ RdIdle /\ BayerIdle /\ LoadIdle /\ AppIdle /\ CurveIdle
  /\ RenderIdle /\ WorkersIdle

ApplyMtf ==
  /\ mtf_y = None
  /\ mtf_y' = Some(mtf(mtf_x, mtf_m))
  /\ UNCHANGED << mtf_x, mtf_m, rdVars, bayerVars, loadVars, appVars, curveVars >>
  /\ UNCHANGED << renderVars, workerVars >>

NextMtf == ApplyMtf

SpecMtf == InitMtf /\ [][NextMtf]_vars

---------------------------------------------------------------------------
(* mtf: claim C16                                                          *)

InUnit(a) == FGt(a, Zero) /\ FLt(a, One)

\* |a - b| <= tol
Within(a, b, tol) == FLe(FAbs(FSub(a, b)), tol)

\* 2^-20 and 2^-13
Tol20 == Fin(FALSE, 8388608, -43)
Tol13 == Fin(FALSE, 8388608, -36)

\* What C16 says of mtf apart from mtf(m, m): the end points for m inside
\* (0, 1), 0 at and below x = 0 and 1 at and above x = 1 for every m, a flat
\* 0 or 1 for a degenerate m inside, and a result in [0, 1].
MtfEndsAndRange ==
  LET y == Unwrap(mtf_y)
  IN  /\ FLe(mtf_x, Zero) => y = Zero
      /\ FGe(mtf_x, One) => y = One
      /\ InUnit(mtf_x) /\ FLe(mtf_m, Zero) => y = Zero
      /\ InUnit(mtf_x) /\ FGe(mtf_m, One) => y = One
      /\ FGe(y, Zero) /\ FLe(y, One)

\* C16 as stated: mtf(0, m) = 0, mtf(1, m) = 1 and mtf(m, m) = 0.5 for m
\* inside (0, 1); 0 for x <= 0 and 1 for x >= 1 whatever m is; for x inside
\* (0, 1) a flat 0 for m <= 0 and a flat 1 for m >= 1; every result lies in
\* [0, 1].
C16_MtfFixedPoints ==
  mtf_y # None =>
    /\ MtfEndsAndRange
    /\ InUnit(mtf_m) /\ mtf_x = mtf_m => Unwrap(mtf_y) = F05

\* C16 as amended: the same, with mtf(m, m) equal to 0.5 up to the rounding
\* of f32: within 2^-20 of 0.5 for the listed m (0.5 itself for 0.01 and
\* 0.5), within 2^-13 for any m inside (0, 1).
C16_MtfFixedPointsRounded ==
  mtf_y # None =>
    /\ MtfEndsAndRange
    /\ InUnit(mtf_m) /\ mtf_x = mtf_m => Within(Unwrap(mtf_y), F05, Tol13)
    /\ mtf_m \in ListedMs /\ mtf_x = mtf_m => Within(Unwrap(mtf_y), F05, Tol20)
    /\ mtf_m \in { F001, F05 } /\ mtf_x = mtf_m => Unwrap(mtf_y) = F05

\* mtf(0.1, 0.1) has been computed and is just off 0.5.
C16_Witness ==
  /\ mtf_y # None
  /\ mtf_x = F01 /\ mtf_m = F01
  /\ Unwrap(mtf_y) # F05
  /\ Within(Unwrap(mtf_y), F05, Tol20)

---------------------------------------------------------------------------
(* Specification of the stretch curves: data_min_max and then the table of *)
(* linear_lut or autostretch_lut, on every plane of CurveInputs.           *)

\* The plane of the samples given as integers.
Samples(ints) == [ i \in DOMAIN ints |-> F32(ints[i]) ]

\* The bit-depth ceilings FitsImage::load sets: unknown, 8 bit, 16 bit.
Ceilings == { Zero, F255, F32(65535) }

\* Planes of one value, up to MaxFlatLevel, under every ceiling.
MaxFlatLevel == 4
ConstantInputs ==
  { [ plane |-> Samples(<< v, v, v >>), bd |-> bd ] :
      v \in 0..MaxFlatLevel, bd \in Ceilings }

\* 5000 pixels: 4999 at the 16-bit ceiling and one, 0.02 % of them, at 0.
HotPlane == [ i \in 1..5000 |-> IF i = 1 THEN Zero ELSE F32(65535) ]

\* 5001 pixels of a 16-bit frame: a dead one at 0, one at 1000, a background
\* of 2500 at 20000, 2498 at 30000 and a hot one at 60000.
FramePlane ==
  [ i \in 1..5001 |->
      CASE i = 1 -> Zero
        [] i = 2 -> F32(1000)
        [] i \in 3..2502 -> F32(20000)
        [] i \in 2503..5000 -> F32(30000)
        [] OTHER -> F32(60000) ]

\* 1.5 * 2^127, about 2.55e38.
Huge == Fin(FALSE, 12582912, 104)

\* Planes with a spread of values: dark and bright backgrounds, 8 and 16 bit,
\* a background in the bin of the black point and one in the bin of the white
\* point, float data with negative values, samples above the ceiling, a NaN,
\* float data whose range is past f32::MAX.
SpreadInputs ==
  { [ plane |-> Samples(<< 100, 101, 102, 200 >>), bd |-> F32(65535) ],
    [ plane |-> Samples(<< 1000, 1200, 1100, 65000 >>), bd |-> F32(65535) ],
    [ plane |-> Samples(<< 47, 137, 238, 255 >>), bd |-> F255 ],
    [ plane |-> Samples(<< 0, 0, 0, 100 >>), bd |-> F255 ],
    [ plane |-> Samples(<< 47, 47, 47, 255 >>), bd |-> F255 ],
    [ plane |-> Samples(<< 0, 32000, 32001, 32002 >>), bd |-> F32(65535) ],
    [ plane |-> Samples(<< -5, 0, 3, 10 >>), bd |-> Zero ],
    [ plane |-> Samples(<< 0, 65535, 150000 >>), bd |-> F32(65535) ],
    [ plane |-> << NaN, F32(10), F32(20), F32(4000) >>, bd |-> F32(65535) ],
    [ plane |-> << FNeg(Huge), Zero, Huge >>, bd |-> Zero ],
    [ plane |-> HotPlane, bd |-> F32(65535) ],
    [ plane |-> FramePlane, bd |-> F32(65535) ] }

\* Planes with a spread of values that autostretch_lut still finds
\* degenerate: a zero ceiling, every sample in one bin of the ceiling, every
\* sample above the ceiling or below zero, no finite sample.
CollapsedInputs ==
  { [ plane |-> Samples(<< -5, 0 >>), bd |-> Zero ],
    [ plane |-> Samples(<< 100, 101 >>), bd |-> F32(65535) ],
    [ plane |-> Samples(<< 70000, 80000 >>), bd |-> F32(65535) ],
    [ plane |-> Samples(<< -5, -3 >>), bd |-> F255 ],
    [ plane |-> Samples(<< -10, -5, -1 >>), bd |-> Zero ],
    [ plane |-> << NaN, Inf, NegInf >>, bd |-> F255 ] }

CurveInputs == ConstantInputs \cup SpreadInputs \cup CollapsedInputs

\* The planes the table of linear_lut is built for.
LinearInputs ==
  { in \in CurveInputs : in.plane \in { Samples(<< 47, 137, 238, 255 >>),
                                        Samples(<< -5, 0, 3, 10 >>),
                                        Samples(<< 2, 2, 2 >>),
                                        << NaN, F32(10), F32(20), F32(4000) >>,
                                        << NaN, Inf, NegInf >>,
                                        << FNeg(Huge), Zero, Huge >> } }

InitCurve ==
  /\ \E in \in CurveInputs :
       /\ cv_plane = in.plane
       /\ cv_bd = in.bd
       /\ cv_stretch \in (IF in \in LinearInputs THEN Stretches ELSE { "AutoStretch" })
  /\ cv_min_max = None /\ cv_curve = None /\ cv_lut = None /\ cv_out = None
  /\ RdIdle /\ BayerIdle /\ LoadIdle /\ AppIdle /\ MtfIdle
  /\ RenderIdle /\ WorkersIdle

\* Lines 261 and 281-283.
MinMax ==
  /\ cv_min_max = None
  /\ cv_min_max' = Some(data_min_max(cv_plane))
  /\ UNCHANGED << cv_plane, cv_bd, cv_stretch, cv_curve, cv_lut, cv_out >>
  /\ UNCHANGED << rdVars, bayerVars, loadVars, appVars, mtfVars, renderVars, workerVars >>

\* Line 263.
BuildLinear ==
  /\ cv_min_max # None /\ cv_lut = None /\ cv_stretch = "Linear"
  /\ cv_lut' = Some(linear_lut(Unwrap(cv_min_max)[1], Unwrap(cv_min_max)[2]))
  /\ UNCHANGED << cv_plane, cv_bd, cv_stretch, cv_min_max, cv_curve, cv_out >>
  /\ UNCHANGED << rdVars, bayerVars, loadVars, appVars, mtfVars, renderVars, workerVars >>

\* Lines 355-390 of autostretch_lut, called at line 264.
AutoParams ==
  /\ cv_min_max # None /\ cv_curve = None /\ cv_stretch = "AutoStretch"
  /\ cv_curve' = Some(AutoCurve(cv_plane, Unwrap(cv_min_max)[1],
                                Unwrap(cv_min_max)[2], cv_bd))
  /\ UNCHANGED << cv_plane, cv_bd, cv_stretch, cv_min_max, cv_lut, cv_out >>
  /\ UNCHANGED << rdVars, bayerVars, loadVars, appVars, mtfVars, renderVars, workerVars >>

\* Lines 357, 361, 372 and 394-412 of autostretch_lut.
BuildAuto ==
  /\ cv_curve # None /\ cv_lut = None
  /\ cv_lut' = Some(AutoTable(Unwrap(cv_curve)))
  /\ UNCHANGED << cv_plane, cv_bd, cv_stretch, cv_min_max, cv_curve, cv_out >>
  /\ UNCHANGED << rdVars, bayerVars, loadVars, appVars, mtfVars, renderVars, workerVars >>

\* Lines 266-277 of to_rgba_gray.
Composite ==
  /\ cv_lut # None /\ cv_out = None
  /\ cv_out' = Some(Gray(Through(cv_plane, Unwrap(cv_min_max)[1],
                                 Scale(Unwrap(cv_min_max)[1], Unwrap(cv_min_max)[2]),
                                 Unwrap(cv_lut))))
  /\ UNCHANGED << cv_plane, cv_bd, cv_stretch, cv_min_max, cv_curve, cv_lut >>
  /\ UNCHANGED << rdVars, bayerVars, loadVars, appVars, mtfVars, renderVars, workerVars >>

NextCurve == MinMax \/ BuildLinear \/ AutoParams \/ BuildAuto \/ Composite

SpecCurve == InitCurve /\ [][NextCurve]_vars

---------------------------------------------------------------------------
(* The stretch curves                                                      *)

AutoLut == cv_stretch = "AutoStretch" /\ cv_lut # None
Lut == Unwrap(cv_lut)
CurveOf == Unwrap(cv_curve)
DataMin == Unwrap(cv_min_max)[1]
DataMax == Unwrap(cv_min_max)[2]

\* C12: whatever the plane and the bit-depth ceiling (unknown, 8 bit, 16 bit;
\* planes with negative values and with samples above the ceiling
\* included), the table autostretch_lut builds never steps down:
\* lut[i] <= lut[i + 1] for every 0 <= i < 4095.
C12_AutoLutMonotone ==
  AutoLut => \A i \in 0..(LUT_SIZE - 2) : Lut[i] <= Lut[i + 1]

\* A curve for a plane with negative values under an unknown ceiling, going
\* from 0 through a middle value to 255.
C12_Witness ==
  /\ AutoLut /\ ~CurveOf.flat /\ FLt(DataMin, Zero) /\ cv_bd = Zero
  /\ Lut[0] = 0 /\ Lut[LUT_SIZE - 1] = 255
  /\ \E i \in 0..(LUT_SIZE - 1) : 0 < Lut[i] /\ Lut[i] < 255

\* The three ways a plane is degenerate: its finite samples have one value,
\* the ceiling the samples are normalised by (line 362) is zero, the high
\* percentile is not above the low one.
ConstantPlane == \A j, k \in FiniteIdx(cv_plane) : cv_plane[j] = cv_plane[k]
Ceiling == IF FGt(cv_bd, Zero) THEN cv_bd ELSE DataMax
ZeroCeiling == FEq(Ceiling, Zero)
HiLeLo ==
  FLe(percentile_norm(cv_plane, Zero, Ceiling, HIGH_PCTILE),
      percentile_norm(cv_plane, Zero, Ceiling, LOW_PCTILE))

\* C13: autostretch_lut on a degenerate plane (a constant plane, a zero
\* normalisation ceiling, or a high percentile at or below the low one)
\* returns a table whose 4096 entries are all 128.
C13_DegenerateIsFlat ==
  (AutoLut /\ (ConstantPlane \/ ZeroCeiling \/ HiLeLo))
    => \A i \in 0..(LUT_SIZE - 1) : Lut[i] = 128

\* A plane of two values under a nonzero ceiling whose percentiles fall in
\* one bin, and its flat table.
C13_Witness ==
  /\ AutoLut /\ ~ConstantPlane /\ ~ZeroCeiling /\ HiLeLo
  /\ Lut[0] = 128 /\ Lut[LUT_SIZE - 1] = 128

Composited == cv_out # None
\* The byte pixel k of the out buffer shows (its R, which its G and B repeat).
PixelOut(k) == Unwrap(cv_out)[4 * (k - 1) + 1]

\* The value of the sample at the given percentile of the finite samples,
\* by rank.
PctileValue(data, pctile) ==
  Least({ v \in Values(data) :
            CountOf(data, { w \in Values(data) : FLe(w, v) })
              >= PctileTarget(Cardinality(FiniteIdx(data)), pctile) })

\* The clip points of lines 368-369: the lower edges, as fractions of the
\* ceiling, of the histogram bins that hold the two percentiles.
LoBd == percentile_norm(cv_plane, Zero, Ceiling, LOW_PCTILE)
HiBd == percentile_norm(cv_plane, Zero, Ceiling, HIGH_PCTILE)
NonDegeneratePlane == ~(ConstantPlane \/ ZeroCeiling \/ HiLeLo)

\* The normalised value table entry i stands for (lines 396-398).
EntryValue(i) ==
  EntryX([ data_min |-> DataMin, range |-> FSub(DataMax, DataMin), bd |-> Ceiling ], i)

\* C14 as stated: in the AutoStretch rendering of a non-degenerate plane
\* every sample at or below the 0.02nd-percentile sample shows as 0 and every
\* sample at or above the 99.98th-percentile sample shows as 255.
C14_ClipsAtSamplePercentiles ==
  (AutoLut /\ NonDegeneratePlane /\ Composited) =>
    \A k \in FiniteIdx(cv_plane) :
      /\ FLe(cv_plane[k], PctileValue(cv_plane, LOW_PCTILE)) => PixelOut(k) = 0
      /\ FGe(cv_plane[k], PctileValue(cv_plane, HIGH_PCTILE)) => PixelOut(k) = 255

\* C14, amended: in the AutoStretch table of a non-degenerate plane every
\* entry whose normalised value is at or below lo, the lower edge of the
\* histogram bin of the 0.02nd percentile, is 0, and every entry whose
\* normalised value is at or above hi, the lower edge of the bin of the
\* 99.98th percentile, is 255; for the plane with 0.02 % of its pixels at 0
\* and the rest at the ceiling the pixels at 0 show as 0 and the pixels at
\* the ceiling as 255.
C14_ClipsAtHistogramPercentiles ==
  /\ (AutoLut /\ NonDegeneratePlane) =>
        /\ CurveOf.lo_bd = LoBd /\ CurveOf.hi_bd = HiBd
        /\ \A i \in 0..(LUT_SIZE - 1) :
             /\ FLe(EntryValue(i), CurveOf.lo_bd) => Lut[i] = 0
             /\ FGe(EntryValue(i), CurveOf.hi_bd) => Lut[i] = 255
  /\ (AutoLut /\ cv_plane = HotPlane /\ Composited) =>
        \A k \in DOMAIN cv_plane :
          PixelOut(k) = (IF cv_plane[k] = Zero THEN 0 ELSE 255)

\* A table with a black point above 0 and a white point below the ceiling,
\* clipped entries on both sides and entries in between.
C14_Witness ==
  /\ AutoLut /\ NonDegeneratePlane
  /\ CurveOf.lo_bd = LoBd /\ FGt(LoBd, Zero)
  /\ CurveOf.hi_bd = HiBd /\ FLt(HiBd, One)
  /\ \E i \in 1..(LUT_SIZE - 1) : FLe(EntryValue(i), CurveOf.lo_bd) /\ Lut[i] = 0
  /\ \E j \in 0..(LUT_SIZE - 1) :
       FGe(EntryValue(j), CurveOf.hi_bd) /\ FLt(EntryValue(j), One) /\ Lut[j] = 255
  /\ \E k \in 0..(LUT_SIZE - 1) : 0 < Lut[k] /\ Lut[k] < 255

Tol10 == Fin(FALSE, 8388608, -33)
Tol5 == Fin(FALSE, 8388608, -28)

\* The byte of a table entry whose normalised value is the background.
BackgroundByte == EntryOf(CurveOf, CurveOf.x_bg)

LinearLut == cv_stretch = "Linear" /\ cv_lut # None

\* C17: the table of linear_lut is the same ramp for every plane: entry i is
\* 255 * i / 4095 rounded to the nearest integer, so entry 0 is 0, entry 4095
\* is 255 and the entries never step down; in Linear mode on a plane with
\* min < max a sample equal to the minimum shows as 0 and a sample equal to
\* the maximum as 255.
C17_LinearRamp ==
  /\ LinearLut =>
        /\ \A i \in 0..(LUT_SIZE - 1) : Lut[i] = (510 * i + 4095) \div 8190
        /\ Lut[0] = 0 /\ Lut[LUT_SIZE - 1] = 255
        /\ \A i \in 0..(LUT_SIZE - 2) : Lut[i] <= Lut[i + 1]
  /\ (LinearLut /\ Composited /\ FLt(DataMin, DataMax)) =>
        \A k \in FiniteIdx(cv_plane) :
          /\ cv_plane[k] = DataMin => PixelOut(k) = 0
          /\ cv_plane[k] = DataMax => PixelOut(k) = 255

\* The plane without its non-finite samples.
FinitePart(data) == SelectSeq(data, is_finite)

\* The table index pixel k reads (lines 267-270).
PixelIndex(k) == LutIndex(cv_plane[k], DataMin, Scale(DataMin, DataMax))

\* C18: NaN and the infinities take no part in the statistics and make
\* nothing fail: data_min_max, the curve of autostretch_lut and the table
\* are those of the plane without its non-finite samples, and the out buffer
\* has its four bytes for every pixel, a non-finite pixel reading a table
\* index within 0..4095.
C18_NonFiniteSamplesIgnored ==
  /\ cv_min_max # None =>
        Unwrap(cv_min_max) = data_min_max(FinitePart(cv_plane))
  /\ cv_curve # None =>
        CurveOf = AutoCurve(FinitePart(cv_plane), DataMin, DataMax, cv_bd)
  /\ cv_lut # None =>
        Lut = LutFor(FinitePart(cv_plane), cv_stretch, DataMin, DataMax, cv_bd)
  /\ Composited =>
        /\ Len(Unwrap(cv_out)) = 4 * Len(cv_plane)
        /\ \A k \in DOMAIN cv_plane :
             /\ PixelIndex(k) \in 0..(LUT_SIZE - 1)
             /\ PixelOut(k) = Lut[PixelIndex(k)]
             /\ PixelOut(k) \in 0..255

\* A plane with a NaN among finite samples, stretched by a curve that is not
\* flat and composited; the NaN pixel reads entry 0.
C18_Witness ==
  /\ AutoLut /\ ~CurveOf.flat /\ Composited
  /\ CurveOf = AutoCurve(FinitePart(cv_plane), DataMin, DataMax, cv_bd)
  /\ \E k \in DOMAIN cv_plane :
       cv_plane[k] = NaN /\ PixelIndex(k) = 0 /\ PixelOut(k) = Lut[0]
  /\ Len(FinitePart(cv_plane)) = Len(cv_plane) - 1

---------------------------------------------------------------------------
(* Specification of the display buffer: to_rgba on every image of          *)
(* RenderImages with every stretch and view, then the stretch call it      *)
(* ends in.                                                                *)

\* The planar layout of lines 27-28: the planes one after the other.
Flatten(planes) ==
  [ k \in 1..(Len(planes) * Len(planes[1])) |->
      planes[((k - 1) \div Len(planes[1])) + 1][((k - 1) % Len(planes[1])) + 1] ]

\* A FitsImage of the planes given, each of width * height samples.
ImageOf(width, height, planes, bd) ==
  [ width |-> width, height |-> height, channels |-> Len(planes),
    data |-> Flatten(planes), bitdepth_max |-> bd ]

PlaneR == Samples(<< 0, 1000, 30000, 60000 >>)
PlaneG == Samples(<< 100, 20000, 40000, 50000 >>)
PlaneB == Samples(<< 500, 500, 500, 900 >>)
PlaneR2 == Samples(<< 0, 1000, 30000, 30001 >>)
PlaneG2 == Samples(<< 100, 20000, 20001, 65535 >>)
PlaneB2 == << NaN, F32(500), F32(700), F32(900) >>

\* Three-channel images that differ from the first in one plane only.
ColourImages ==
  { ImageOf(2, 2, << PlaneR, PlaneG, PlaneB >>, F32(65535)),
    ImageOf(2, 2, << PlaneR2, PlaneG, PlaneB >>, F32(65535)),
    ImageOf(2, 2, << PlaneR, PlaneG2, PlaneB >>, F32(65535)),
    ImageOf(2, 2, << PlaneR, PlaneG, PlaneB2 >>, F32(65535)) }

\* One, two, three and four channels, an image without pixels, a constant
\* plane, and non-finite samples.
RenderImages ==
  ColourImages \cup
  { ImageOf(2, 2, << Samples(<< 47, 137, 238, 255 >>) >>, F255),
    ImageOf(2, 1, << << NaN, F32(10) >> >>, Zero),
    ImageOf(0, 3, << << >> >>, Zero),
    ImageOf(1, 3, << Samples(<< 2, 2, 2 >>) >>, F32(65535)),
    ImageOf(1, 2, << << NaN, F32(3) >>, << Inf, NegInf >>, Samples(<< 1, 2 >>) >>, Zero),
    ImageOf(2, 1, << Samples(<< 1, 2 >>), Samples(<< 3, 4 >>) >>, F255),
    ImageOf(1, 1, << Samples(<< 1 >>), Samples(<< 2 >>), Samples(<< 3 >>),
                     Samples(<< 4 >>) >>, Zero) }

\* The buffer the stretch call returns.
Returned(call) ==
  IF call.fn = "to_rgba_gray"
  THEN to_rgba_gray(call.plane, call.stretch, call.bitdepth_max)
  ELSE to_rgba_rgb(call.r, call.g, call.b, call.stretch, call.bitdepth_max)

InitRender ==
  /\ rn_img \in { Some(img) : img \in RenderImages }
  /\ rn_req = None /\ rn_call = None /\ rn_out = None
  /\ RdIdle /\ BayerIdle /\ LoadIdle /\ AppIdle /\ MtfIdle /\ CurveIdle /\ WorkersIdle

\* Lines 126-153: to_rgba up to the stretch call.
Dispatch ==
  /\ rn_call = None
  /\ \E stretch \in Stretches, view \in Views :
       /\ rn_req' = Some([ stretch |-> stretch, view |-> view ])
       /\ rn_call' = Some(to_rgba(Unwrap(rn_img), stretch, view))
  /\ UNCHANGED << rn_img, rn_out >>
  /\ UNCHANGED << rdVars, bayerVars, loadVars, appVars, mtfVars, curveVars, workerVars >>

\* Lines 260-278 and 280-321: the stretch call and its return.
Return ==
  /\ rn_call # None /\ rn_out = None
  /\ rn_out' = Some(IF Unwrap(rn_call) = Panic THEN Panic ELSE Returned(Unwrap(rn_call)))
  /\ UNCHANGED << rn_img, rn_req, rn_call >>
  /\ UNCHANGED << rdVars, bayerVars, loadVars, appVars, mtfVars, curveVars, workerVars >>

NextRender == Dispatch \/ Return

SpecRender == InitRender /\ [][NextRender]_vars

---------------------------------------------------------------------------
(* The display buffer                                                      *)

Image == Unwrap(rn_img)
Request == Unwrap(rn_req)
Out == Unwrap(rn_out)
Returns == rn_out # None
NPix == Image.width * Image.height

\* The byte of channel d (0, 1, 2; 3 is alpha) of pixel i of a buffer.
ByteOf(buf, i, d) == buf[4 * i + d + 1]

\* The plane to_rgba shows in channel d of the buffer (lines 130-151).
ShownPlane(d) ==
  IF Image.channels = 1 THEN PlaneOf(Image, 0)
  ELSE IF Request.view[1] = "Single"
       THEN PlaneOf(Image, Min(Request.view[2], Image.channels - 1))
  ELSE IF Image.channels = 3 THEN PlaneOf(Image, d)
  ELSE PlaneOf(Image, 0)

\* A single-channel selection: Single(c), or an image of one channel.
SingleChannel == Request.view[1] = "Single" \/ Image.channels = 1

\* C11: to_rgba returns width * height * 4 bytes in pixel order, the bytes
\* of pixel i at 4i..4i+3 being the stretched sample i of the plane shown;
\* every alpha byte is 255, and for a single-channel selection the R, G and
\* B bytes of a pixel are equal.
C11_RgbaBuffer ==
  Returns =>
    /\ Out # Panic
    /\ Len(Image.data) = NPix * Image.channels
    /\ DOMAIN Out = 1..(4 * NPix)
    /\ \A i \in 0..(NPix - 1) :
         /\ ByteOf(Out, i, 3) = 255
         /\ \A d \in 0..2 :
              /\ ByteOf(Out, i, d) \in 0..255
              /\ ByteOf(Out, i, d) =
                   Stretched(ShownPlane(d), Request.stretch, Image.bitdepth_max)[i + 1]
         /\ SingleChannel =>
              ByteOf(Out, i, 0) = ByteOf(Out, i, 1) /\ ByteOf(Out, i, 1) = ByteOf(Out, i, 2)

\* The composite of a three-channel image whose channels differ in a pixel.
C11_Witness ==
  /\ Returns /\ Image.channels = 3 /\ NPix = 4 /\ Len(Out) = 16
  /\ Request.view = Rgb /\ Request.stretch = "AutoStretch"
  /\ \E i \in 0..3 : ByteOf(Out, i, 0) # ByteOf(Out, i, 1)
  /\ \E i \in 0..3 : ByteOf(Out, i, 1) # ByteOf(Out, i, 2)
  /\ \A i \in 0..3 : ByteOf(Out, i, 3) = 255

\* to_rgba ended in to_rgba_rgb and has returned.
CompositeView == Returns /\ Unwrap(rn_call).fn = "to_rgba_rgb"

\* The images that differ from the one shown in the samples of plane c only.
Twins(c) ==
  { v \in RenderImages :
      /\ v.channels = 3 /\ v.width = Image.width /\ v.height = Image.height
      /\ v.bitdepth_max = Image.bitdepth_max
      /\ PlaneOf(v, c) # PlaneOf(Image, c)
      /\ \A d \in 0..2 \ { c } : PlaneOf(v, d) = PlaneOf(Image, d) }

\* The composite of the image v under the stretch asked for.
CompositeOf(v) == Returned(to_rgba(v, Request.stretch, Rgb))

\* C19: in the composite view each channel is stretched on its own: an image
\* that differs in the samples of one plane only gets the same bytes in the
\* two other channels and in alpha, under Linear and under AutoStretch, and
\* the bytes of a channel are those of its plane stretched alone.
C19_ChannelsIndependent ==
  CompositeView =>
    /\ \A c \in 0..2 : \A v \in Twins(c) :
         \A i \in 0..(NPix - 1) : \A d \in 0..3 \ { c } :
           ByteOf(Out, i, d) = ByteOf(CompositeOf(v), i, d)
    /\ \A d \in 0..2 :
         \A i \in 0..(NPix - 1) :
           ByteOf(Out, i, d) =
             to_rgba_gray(PlaneOf(Image, d), Request.stretch, Image.bitdepth_max)[4 * i + 1]

\* A composite under AutoStretch of an image with a twin in plane 0 whose
\* own channel comes out differently.
C19_Witness ==
  /\ CompositeView /\ Request.stretch = "AutoStretch"
  /\ \E v \in Twins(0) : \E i \in 0..(NPix - 1) :
       /\ ByteOf(Out, i, 0) # ByteOf(CompositeOf(v), i, 0)
       /\ ByteOf(Out, i, 1) = ByteOf(CompositeOf(v), i, 1)
       /\ ByteOf(Out, i, 1) \notin { 0, 255 }

---------------------------------------------------------------------------
(* Specification of to_rgba_rgb with its scoped threads (lines 280-321):   *)
(* the calling thread and the three workers of std::thread::scope, one     *)
(* step at a time.                                                         *)

\* The calls to_rgba_rgb(r, g, b, stretch, bd) of the composite view.
WorkerImages ==
  { ImageOf(2, 2, << PlaneR, PlaneG, PlaneB >>, F32(65535)),
    ImageOf(2, 2, << PlaneR2, PlaneG2, PlaneB2 >>, Zero) }
WorkerCalls ==
  { to_rgba(img, stretch, Rgb) : img \in WorkerImages, stretch \in Stretches }

\* The plane of channel c (1, 2, 3) of a call.
ArgPlane(args, c) == IF c = 1 THEN args.r ELSE IF c = 2 THEN args.g ELSE args.b

\* What every closure would capture were r and its min and max shared.
CapturesOfFirst(args, mm, c) ==
  [ data |-> args.r, data_min |-> mm[1][1], data_max |-> mm[1][2],
    bitdepth_max |-> args.bitdepth_max ]

\* What the closure of the worker of channel c captures (lines 296-298).
Captures(args, mm, c) ==
  [ data |-> ArgPlane(args, c), data_min |-> mm[c][1], data_max |-> mm[c][2],
    bitdepth_max |-> args.bitdepth_max ]

\* A thread as s.spawn leaves it.
Spawned(captures) ==
  [ captures |-> captures, pc |-> "curve", curve |-> None, result |-> None ]

\* Lines 355-390 of autostretch_lut in a worker.
CurveStep(w) ==
  [ w EXCEPT !.pc = "table",
             !.curve = Some(AutoCurve(w.captures.data, w.captures.data_min,
                                      w.captures.data_max, w.captures.bitdepth_max)) ]

\* Lines 394-412 of autostretch_lut in a worker, and its return.
TableStep(w) ==
  [ w EXCEPT !.pc = "finished", !.result = Some(AutoTable(Unwrap(w.curve))) ]

\* The next step of a worker.
WorkerStep(w) == IF w.pc = "curve" THEN CurveStep(w) ELSE TableStep(w)

\* Lines 305-320: the scales and the pixel loop.
CompositeWith(args, mm, luts) ==
  Interleave(Through(args.r, mm[1][1], Scale(mm[1][1], mm[1][2]), luts[1]),
             Through(args.g, mm[2][1], Scale(mm[2][1], mm[2][2]), luts[2]),
             Through(args.b, mm[3][1], Scale(mm[3][1], mm[3][2]), luts[3]))

InitWorkers ==
  /\ wk_args \in { Some(call) : call \in WorkerCalls }
  /\ wk_pc = "min_max" /\ wk_min_max = None
  /\ wk = << >> /\ wk_luts = << >> /\ wk_out = None
  /\ RdIdle /\ BayerIdle /\ LoadIdle /\ AppIdle /\ MtfIdle /\ CurveIdle /\ RenderIdle

\* Lines 281-283.
PlanesMinMax ==
  /\ wk_pc = "min_max"
  /\ wk_min_max' = Some(<< data_min_max(Unwrap(wk_args).r),
                           data_min_max(Unwrap(wk_args).g),
                           data_min_max(Unwrap(wk_args).b) >>)
  /\ wk_pc' = IF Unwrap(wk_args).stretch = "Linear" THEN "linear" ELSE "spawn"
  /\ UNCHANGED << wk_args, wk, wk_luts, wk_out >>
  /\ UNCHANGED << rdVars, bayerVars, loadVars, appVars, mtfVars, curveVars, renderVars >>

\* Lines 286-290.
LinearTables ==
  /\ wk_pc = "linear"
  /\ wk_luts' = [ c \in 1..3 |-> linear_lut(Unwrap(wk_min_max)[c][1],
                                              Unwrap(wk_min_max)[c][2]) ]
  /\ wk_pc' = "composite"
  /\ UNCHANGED << wk_args, wk_min_max, wk, wk_out >>
  /\ UNCHANGED << rdVars, bayerVars, loadVars, appVars, mtfVars, curveVars, renderVars >>

\* Lines 296-298: s.spawn of the worker of the next channel.
Spawn ==
  /\ wk_pc = "spawn"
  /\ wk' = Append(wk, Spawned(Captures(Unwrap(wk_args), Unwrap(wk_min_max), Len(wk) + 1)))
  /\ wk_pc' = IF Len(wk) = 2 THEN "join" ELSE "spawn"
  /\ UNCHANGED << wk_args, wk_min_max, wk_luts, wk_out >>
  /\ UNCHANGED << rdVars, bayerVars, loadVars, appVars, mtfVars, curveVars, renderVars >>

\* A step of a worker thread: autostretch_lut on its captures.
Work ==
  /\ \E k \in DOMAIN wk :
       /\ wk[k].pc \in { "curve", "table" }
       /\ wk' = [ wk EXCEPT ![k] = WorkerStep(wk[k]) ]
  /\ UNCHANGED << wk_args, wk_pc, wk_min_max, wk_luts, wk_out >>
  /\ UNCHANGED << rdVars, bayerVars, loadVars, appVars, mtfVars, curveVars, renderVars >>

\* Line 299: join of the next handle, which waits for its thread to finish.
Join ==
  /\ wk_pc = "join"
  /\ wk[Len(wk_luts) + 1].pc = "finished"
  /\ wk_luts' = Append(wk_luts, Unwrap(wk[Len(wk_luts) + 1].result))
  /\ wk' = [ wk EXCEPT ![Len(wk_luts) + 1].pc = "joined" ]
  /\ wk_pc' = IF Len(wk_luts) = 2 THEN "composite" ELSE "join"
  /\ UNCHANGED << wk_args, wk_min_max, wk_out >>
  /\ UNCHANGED << rdVars, bayerVars, loadVars, appVars, mtfVars, curveVars, renderVars >>

\* Lines 304-320.
CompositeRgb ==
  /\ wk_pc = "composite"
  /\ wk_out' = Some(CompositeWith(Unwrap(wk_args), Unwrap(wk_min_max), wk_luts))
  /\ wk_pc' = "returned"
  /\ UNCHANGED << wk_args, wk_min_max, wk, wk_luts >>
  /\ UNCHANGED << rdVars, bayerVars, loadVars, appVars, mtfVars, curveVars, renderVars >>

NextWorkers == PlanesMinMax \/ LinearTables \/ Spawn \/ Work \/ Join \/ CompositeRgb

SpecWorkers == InitWorkers /\ [][NextWorkers]_vars

---------------------------------------------------------------------------
(* The workers of the composite view                                       *)

Args == Unwrap(wk_args)
PlanesRange == Unwrap(wk_min_max)
Compositing == wk_pc \in { "composite", "returned" }

\* The worker of channel k is the k-th thread spawned, working on the plane,
\* the min and the max of its channel.
OnePerChannel ==
  /\ Len(wk) <= 3
  /\ \A k \in DOMAIN wk :
       /\ wk[k].captures.data = ArgPlane(Args, k)
       /\ wk[k].captures.data_min = data_min_max(ArgPlane(Args, k))[1]
       /\ wk[k].captures.data_max = data_min_max(ArgPlane(Args, k))[2]
       /\ wk[k].captures.bitdepth_max = Args.bitdepth_max
  /\ wk_pc \in { "join", "composite", "returned" } /\ Args.stretch = "AutoStretch"
       => Len(wk) = 3

\* The pixel loop runs on the tables of three workers that have finished and
\* been joined.
JoinedBeforeCompositing ==
  Compositing /\ Args.stretch = "AutoStretch" =>
    /\ Len(wk_luts) = 3
    /\ \A k \in 1..3 : wk[k].pc = "joined" /\ wk_luts[k] = Unwrap(wk[k].result)

\* The buffer is the one of the three curves computed one after the other.
SameAsSequential ==
  wk_out # None =>
    Unwrap(wk_out) = to_rgba_rgb(Args.r, Args.g, Args.b, Args.stretch, Args.bitdepth_max)

\* A step that changes a worker changes that worker alone, to a value that
\* is a function of its own captures and locals, and writes nothing a worker
\* reads; a worker is never changed after it has been joined.
WorkersDisjoint ==
  \A k \in DOMAIN wk :
    wk'[k] # wk[k] =>
      /\ \A j \in DOMAIN wk \ { k } : wk'[j] = wk[j]
      /\ wk_args' = wk_args /\ wk_min_max' = wk_min_max /\ wk_out' = wk_out
      /\ wk[k].pc # "joined"
      /\ wk'[k].captures = wk[k].captures
      /\ \/ wk'[k] = WorkerStep(wk[k]) /\ wk_luts' = wk_luts /\ wk_pc' = wk_pc
         \/ wk[k].pc = "finished" /\ wk'[k] = [ wk[k] EXCEPT !.pc = "joined" ]

\* C20: in composite AutoStretch three workers, one per channel, compute the
\* curves; a worker writes only its own locals, the pixel loop starts after
\* all three have been joined, and whatever the interleaving the buffer is
\* the one of the three curves computed sequentially.
C20_WorkersJoinedAndIndependent ==
  /\ [](OnePerChannel /\ JoinedBeforeCompositing /\ SameAsSequential)
  /\ [][WorkersDisjoint]_vars

\* The buffer of a composite AutoStretch whose three workers were joined and
\* gave three different tables.
C20_Witness ==
  /\ wk_out # None /\ Args.stretch = "AutoStretch"
  /\ Len(wk) = 3 /\ \A k \in 1..3 : wk[k].pc = "joined"
  /\ wk_luts[1] # wk_luts[2] /\ wk_luts[2] # wk_luts[3] /\ wk_luts[1] # wk_luts[3]
  /\ Unwrap(wk_out) = to_rgba_rgb(Args.r, Args.g, Args.b, Args.stretch, Args.bitdepth_max)

---------------------------------------------------------------------------
(* The header reader: the walk over the HDUs and the end of a header       *)

\* The header blocks of an HDU up to the one that holds its END card.
BlocksToEnd(h) == SubSeq(HeaderBytes(h), 1, EndBlockOf(h) * BlockLen)

\* The call has returned the headers parsed from the header blocks of the
\* target HDU.
ParsedTarget ==
  /\ RdDone /\ RdResult.ok /\ HasTarget /\ Target.hasEnd
  /\ rd.header_bytes = BlocksToEnd(Target)

\* An HDU without the cards that follow its END card.
BeforeEnd(h) == [ h EXCEPT !.tail = << >> ]

\* C25: a header ends at its END card: the list read_headers returns for the
\* target HDU is the one it returns when nothing follows END in the block,
\* so no card after END gives a pair.
C25_NothingAfterEnd ==
  ParsedTarget => RdResult.val = ParseHeaders(BlocksToEnd(BeforeEnd(Target)))

\* The bytes the claim has skipped after a header: 0 without axes, else
\* |BITPIX| * NAXIS1 * ... * NAXISn bits in whole bytes, in whole blocks.
ClaimedSkip(header_bytes) ==
  IF find_header_int(header_bytes, K_NAXIS) \in { None, Some(0) } THEN 0
  ELSE LET bits == Abs(Unwrap(find_header_int(header_bytes, K_BITPIX)))
                     * AxisProduct(header_bytes, 1, Unwrap(find_header_int(header_bytes, K_NAXIS)))
           bytes == IF bits % 8 = 0 THEN bits \div 8 ELSE (bits \div 8) + 1
       IN  IF bytes % BlockLen = 0 THEN bytes ELSE ((bytes \div BlockLen) + 1) * BlockLen

\* The step that passes over the data of an HDU before the target.
SkipsClaimed ==
  (rd.pc = "found_end" /\ rd'.pc = "read_block") =>
    rd'.pos - rd.pos = ClaimedSkip(rd.header_bytes)

\* Every header block starts at a multiple of 2880.
BlockAligned == rd.pos % BlockLen = 0

\* The headers returned are those of the HDU of that index in file order.
HeadersOfTarget ==
  (RdDone /\ RdResult.ok /\ HasTarget) => RdResult.val = ParseHeaders(BlocksToEnd(Target))

\* C21: on the way to the target HDU the reader skips, after the header of
\* each HDU before it, the bytes of ClaimedSkip, so that every header block
\* it reads starts at a multiple of 2880 and the headers it returns for index
\* k are those of the k-th HDU of the file.
C21_SkipsToTargetHdu ==
  /\ [](BlockAligned /\ HeadersOfTarget)
  /\ [][SkipsClaimed]_vars

---------------------------------------------------------------------------
(* The viewer: deletion, the selection, loads                              *)

\* C24: in every reachable state of the viewer an image and a load error are
\* never both present.
C24_ImageOrErrorNotBoth ==
  ~(app.image # None /\ app.load_error # None)

\* The FastFitsApp values delete_selected and the selection keys are called
\* on in a frame from this state: before and after the poll of update.
Callers == { app, Poll(app) }

\* The call has a selected file to delete (lines 177-178).
HasSelectedFile(self) ==
  self.selected # None /\ Unwrap(self.selected) < Len(self.files)

\* delete_selected fails: only delete_status differs, and it is set.
FailedDeleteKeepsAll(self) ==
  LET after == delete_selected(self, disk, FALSE)
  IN  /\ after.disk = disk
      /\ after.app.delete_status # None
      /\ after.app = [ self EXCEPT !.delete_status = after.app.delete_status ]
      /\ after.app.files = self.files /\ after.app.selected = self.selected
      /\ after.app.image = self.image /\ after.app.texture = self.texture
      /\ after.app.load_error = self.load_error

\* delete_selected succeeds: the selected entry is gone, the others keep
\* their order, and the selection is on the next file, on the last one when
\* the last was deleted, or None when no file is left.
DeleteAdvances(self) ==
  LET after == delete_selected(self, disk, TRUE).app
      idx == Unwrap(self.selected)
      n == Len(self.files)
  IN  /\ Len(after.files) = n - 1
      /\ \A i \in 1..(n - 1) :
           after.files[i] = IF i <= idx THEN self.files[i] ELSE self.files[i + 1]
      /\ after.selected =
           IF n = 1 THEN None ELSE IF idx = n - 1 THEN Some(n - 2) ELSE Some(idx)
      /\ (n > 1 /\ idx < n - 1) =>
           after.files[Unwrap(after.selected) + 1] = self.files[idx + 2]
      /\ (n > 1 /\ idx = n - 1) =>
           after.files[Unwrap(after.selected) + 1] = self.files[n - 1]

\* C22: a delete that fails leaves the file list, the selection, the image,
\* the texture and load_error as they are and only sets delete_status; one
\* that succeeds removes exactly the selected entry, the others keeping
\* their order, and moves the selection to the entry now at that index, back
\* to the last entry when the deleted one was last, or to None when the list
\* is empty.
C22_DeleteSelected ==
  \A self \in Callers :
    HasSelectedFile(self) => FailedDeleteKeepsAll(self) /\ DeleteAdvances(self)

\* After a delete that succeeded and one that failed: the last of two files
\* is selected and shown, and deleting it steps back to the first.
C22_Witness ==
  /\ Len(app.files) = NumFiles - 1 /\ app.delete_status # None
  /\ app.selected = Some(Len(app.files) - 1) /\ app.image # None
  /\ delete_selected(app, disk, TRUE).app.selected = Some(Len(app.files) - 2)
  /\ delete_selected(app, disk, TRUE).app.files = SubSeq(app.files, 1, Len(app.files) - 1)

\* The selection is None or the index of a file of the list.
SelectionInRange(self) ==
  self.selected = None \/ Unwrap(self.selected) \in 0..(Len(self.files) - 1)

\* C23: whatever select, select_next, select_prev, delete_selected and
\* reload_image have done, the selection is None or an index below the
\* number of files, and stays so under each of them; select_next from the
\* last file goes to index 0, select_prev from index 0 to the last file, and
\* both do nothing on an empty list.
C23_SelectionInRange ==
  /\ SelectionInRange(app)
  /\ \A self \in Callers :
       /\ SelectionInRange(select_next(self)) /\ SelectionInRange(select_prev(self))
       /\ SelectionInRange(reload_image(self))
       /\ \A removed \in BOOLEAN :
            SelectionInRange(delete_selected(self, disk, removed).app)
       /\ \A idx \in 0..(Len(self.files) - 1) : SelectionInRange(select(self, idx))
       /\ self.files = << >> => select_next(self) = self /\ select_prev(self) = self
       /\ (self.files # << >> /\ self.selected = Some(Len(self.files) - 1)) =>
            select_next(self).selected = Some(0)
       /\ (self.files # << >> /\ self.selected = Some(0)) =>
            select_prev(self).selected = Some(Len(self.files) - 1)

\* The last of several files is selected after a delete, and select_next
\* from it starts the load of the first file.
C23_Witness ==
  /\ Len(app.files) = NumFiles - 1 /\ app.selected = Some(Len(app.files) - 1)
  /\ select_next(app).selected = Some(0)
  /\ select_next(app).load_rx =
       Some([ file |-> app.files[1], result |-> None, msg |-> None ])

---------------------------------------------------------------------------
(* The viewer with a loader thread that runs to its end and frames that    *)
(* keep coming: FitsImage::load returns, the thread sends its result and   *)
(* asks for a repaint (lines 151-156), and update polls (lines 220-238).   *)

FairSpec ==
  /\ Init /\ [][Next]_vars
  /\ WF_vars(LoaderLoad) /\ WF_vars(LoaderSend) /\ WF_vars(Repaint)

\* A step without user input: the loader thread, or a frame with no event.
NoInput == LoaderLoad \/ LoaderSend \/ Repaint

\* A background load is in flight.
Loading == app.load_rx # None

\* The file f is selected and its load is in flight.
LoadingSelected(f) == Loading /\ SelectedFile = f /\ Unwrap(app.load_rx).file = f

\* The receiver and the loading name are cleared.
NotLoading == app.load_rx = None /\ app.loading_name = None

\* The image or the load error of the selected file is set.
ShowsSelected ==
  /\ SelectedFile # 0
  /\ \/ app.image # None /\ Decode(disk, SelectedFile) = Ok(Unwrap(app.image))
     \/ app.load_error # None /\ Decode(disk, SelectedFile) = Err(Unwrap(app.load_error))

===========================================================================
